---------------------------- MODULE Spec2Model ----------------------------
(***************************************************************************)
(* Model of the timeline runtime of FullBodiedPlugin                       *)
(* (src/src/ActorManager.cpp): per-caster generation tokens, the touched   *)
(* registry, active timelines, active morph tweens, and the three entry    *)
(* points StartTimeline, Update and CancelAndReset.                        *)
(*                                                                         *)
(* Conventions                                                             *)
(*  - An actor is named by its form ID; the handle of actor a is a, the    *)
(*    empty handle is NullHandle (operator bool of the handle is FALSE).   *)
(*  - float seconds are counted in units of 1/40 s, so kMaxDtSeconds       *)
(*    (0.25f) is 10; scale factors are counted in tenths (1.0f is 10).     *)
(*  - The unordered maps are functions whose domain is the set of keys     *)
(*    present; iteration order over them is chosen nondeterministically.   *)
(*  - logOps only selects log output and is not modelled.                  *)
(*  - Whether a non-empty handle still resolves (handle.get() non-null)   *)
(*    is decided by the engine; every tick draws the set of actors that   *)
(*    resolve during it (live).                                            *)
(*  - calls is the observation log: the mutator calls (FB::Scaler,         *)
(*    FB::Morph) issued by the last entry point, each tagged with the      *)
(*    caster identity and captured token on whose behalf it was issued.    *)
(***************************************************************************)
EXTENDS Integers, Sequences, FiniteSets, TLC

\* ------------------------------------------------------------------------
\* Bounds of the model
\* ------------------------------------------------------------------------
MaxBumps == 3
MaxApiBumps == 2
MaxScenarioTicks == 10
MaxTasks == 3
MaxFrames == 2
MaxPumpBumps == 1
MaxRouterBumps == 2

\* ------------------------------------------------------------------------
\* Program constants
\* ------------------------------------------------------------------------
kMaxDtSeconds == 10
kIdentityScale == 10

NullHandle == 0
Actors == {1, 2}
Handles == Actors \cup {NullHandle}


\* FB::TimedCommand values
ScaleCmd(who, t, key) ==
    [kind |-> "kScale", target |-> who, timeSeconds |-> t, nodeKey |-> key,
     scale |-> 5, morphName |-> "", delta |-> 0, tweenSeconds |-> 0]
MorphCmd(who, t, name, d, tween) ==
    [kind |-> "kMorph", target |-> who, timeSeconds |-> t, nodeKey |-> "",
     scale |-> kIdentityScale, morphName |-> name, delta |-> d, tweenSeconds |-> tween]

\* FB::Config clamps time offsets to >= 0 and sorts every command list
\* ascending by timeSeconds: only sorted lists reach StartTimeline.
IsSorted(cmds) ==
    \A i \in 1..(Len(cmds) - 1) : cmds[i].timeSeconds <= cmds[i + 1].timeSeconds

\* The timelines of the configuration used for two casters that can be each
\* other's target: scale on both roles with a delayed command, a tweened
\* morph followed by a scale, and an instant morph.  (The caller returns
\* before StartTimeline when the configured list is empty.)
PairTimelines ==
    {cmds \in {<<ScaleCmd("kCaster", 0, "Head"), ScaleCmd("kTarget", 10, "Belly")>>,
               <<MorphCmd("kCaster", 0, "M", 4, 10), ScaleCmd("kTarget", 10, "Head")>>,
               <<MorphCmd("kTarget", 0, "M", 4, 0)>>} : IsSorted(cmds)}

\* frame deltas the engine hands to the update hook: negative, zero, half
\* the clamp ceiling (0.125 s) and one and a half times the clamp ceiling
\* (0.375 s)
DtValues == {-1, 0, kMaxDtSeconds \div 2, kMaxDtSeconds + kMaxDtSeconds \div 2}

VARIABLES
    cfgTimelines,       \* cfg.timelines: the configured command lists
    g_registeredActors, \* the actors whose animation events start and cancel timelines
    g_state,            \* casterFormID -> ActorRuntimeState
    g_activeTimelines,  \* casterFormID -> ActiveTimeline
    g_activeTweens,     \* <<actorFormID, morphName>> -> ActiveTween
    calls,              \* mutator calls issued by the last entry point
    lastOp,             \* the last entry point that ran, with the arguments it read
                        \* (for Update: whether dt was positive, and the tweens
                        \* that were stale on entry) and the entry of its caster
                        \* as it was on entry (before); for a CancelAndReset
                        \* that directly follows a CancelAndReset of the same
                        \* caster: the entry the earlier call found (first)
    lastBump,           \* per caster: the entry point that last bumped its token
                        \* and, for StartTimeline, the command list it installed
    scaleWrites,        \* per caster: the <<actor, nodeKey>> scale writes issued on
                        \* its behalf since its last CancelAndReset
    observeWrites,      \* whether scaleWrites is being recorded in this run
    tweenSteps,         \* per active tween key: the sum of the steps handed to
                        \* FB::Morph::AddDelta for the tween registered under it
    written,            \* per caster: the node keys (per role) and the roles whose
                        \* morphs the mutator calls issued on its behalf wrote
                        \* since its last token bump (recorded with scaleWrites)
    runLog,             \* when on: the dtSeconds of every Update call made so far
                        \* (dts) and the mutator calls they issued (calls)
    observeTicks,       \* whether lastOp records the arguments and the
                        \* intermediate state of Update in this run (live is
                        \* recorded for the ticks that get to resolve a handle;
                        \* replaced: the tweens the timeline loop overwrote)
    g_sticky,           \* FB::Morph: <<actorFormID, logicalKey>> -> StickyEntry
    entries,            \* FB::Morph: the StickyEntry objects created so far
    workers,            \* FB::Morph: the worker threads started so far
    g_taskQueue,        \* the tasks queued for the game thread (SKSE task interface)
    delivered,          \* the tasks of FB::Morph the game thread has run
    g_running,          \* FB::UpdatePump
    g_scheduled,        \* FB::UpdatePump
    g_lastPerf,         \* FB::UpdatePump
    lastPerformanceCount, \* RE::BSTimer::lastPerformanceCount
    pumpLocal,          \* PumpOnce: its locals perf and dt
    pc,                 \* per thread: its position in Start, SchedulePump, PumpOnce
    afterStop,          \* a Stop was called and no Start since
    updatesAfterStop,   \* the Update calls PumpOnce made since then
    hiddenFlag,         \* per scene object: Flag::kHidden of the NiAVObject
    g_stateByActorID,   \* actorID -> ActorHideState (baselineHiddenByObj, touched)
    baselineSeen,       \* per object: the flag it had just before FB::Hide first
                        \* touched it since the last ResetActor of its actor
    lastHide,           \* the last call into FB::Hide and whether it got past its
                        \* early returns
    g_actorState,       \* caster FormID -> token, the value behind getTokenFn
    routerThreads,      \* the threads started by ScheduleCommands
    executed            \* the calls of ExecuteCommandNow made so far, each with
                        \* the caster's token at the time of the call

runtimeVars ==
    <<cfgTimelines, g_registeredActors, g_state, g_activeTimelines, g_activeTweens,
      calls, lastOp, lastBump, scaleWrites, observeWrites, tweenSteps, observeTicks,
      written, runLog>>
morphVars == <<g_sticky, entries, workers, g_taskQueue, delivered>>
pumpVars == <<g_running, g_scheduled, g_lastPerf, lastPerformanceCount, pumpLocal, pc,
              afterStop, updatesAfterStop>>

hideVars == <<hiddenFlag, g_stateByActorID, baselineSeen, lastHide>>
routerVars == <<g_actorState, routerThreads, executed>>

vars == <<runtimeVars, morphVars, pumpVars, hideVars, routerVars>>

\* ------------------------------------------------------------------------
\* unordered_map helpers
\* ------------------------------------------------------------------------
MapPut(m, k, v) == [x \in (DOMAIN m) \cup {k} |-> IF x = k THEN v ELSE m[x]]
MapErase(m, k) == [x \in (DOMAIN m) \ {k} |-> m[x]]
EmptyMap == [x \in {} |-> 0]

Perms(S) ==
    {p \in [1..Cardinality(S) -> S] : \A i, j \in 1..Cardinality(S) : p[i] = p[j] => i = j}

Min(a, b) == IF a <= b THEN a ELSE b
Max(a, b) == IF a >= b THEN a ELSE b

\* ------------------------------------------------------------------------
\* ActorRuntimeState and its accessors
\* ------------------------------------------------------------------------
ActorRuntimeState ==
    [token |-> 0, lastTarget |-> NullHandle,
     casterTouchedScale |-> {}, targetTouchedScale |-> {},
     casterTouchedMorph |-> FALSE, targetTouchedMorph |-> FALSE]

\* g_state[casterFormID]: operator[] default-constructs a missing entry
StateRef(gs, casterFormID) ==
    IF casterFormID \in DOMAIN gs THEN gs[casterFormID] ELSE ActorRuntimeState

\* BumpToken without the increment
BumpToken_NoIncrement(gs, casterFormID) ==
    MapPut(gs, casterFormID,
           [StateRef(gs, casterFormID) EXCEPT
               !.casterTouchedScale = {},
               !.targetTouchedScale = {},
               !.casterTouchedMorph = FALSE,
               !.targetTouchedMorph = FALSE])

BumpToken(gs, casterFormID) ==
    MapPut(gs, casterFormID,
           [StateRef(gs, casterFormID) EXCEPT
               !.token = @ + 1,
               !.casterTouchedScale = {},
               !.targetTouchedScale = {},
               !.casterTouchedMorph = FALSE,
               !.targetTouchedMorph = FALSE])

\* IsTokenCurrent that only checks that the caster has an entry
IsTokenCurrent_AnyToken(gs, casterFormID, token) ==
    casterFormID \in DOMAIN gs

IsTokenCurrent(gs, casterFormID, token) ==
    casterFormID \in DOMAIN gs /\ gs[casterFormID].token = token

\* SetLastTarget that creates the entry but does not store the target
SetLastTarget_NotStored(gs, casterFormID, target) ==
    MapPut(gs, casterFormID, StateRef(gs, casterFormID))

SetLastTarget(gs, casterFormID, target) ==
    MapPut(gs, casterFormID, [StateRef(gs, casterFormID) EXCEPT !.lastTarget = target])

\* MarkTouchedScale that records every node key under the caster role
MarkTouchedScale_CasterOnly(gs, casterFormID, who, nodeKey) ==
    MapPut(gs, casterFormID,
           [StateRef(gs, casterFormID) EXCEPT !.casterTouchedScale = @ \cup {nodeKey}])

\* MarkTouchedScale that starts the record of the marked role's run afresh:
\* it drops what was recorded for the other role
MarkTouchedScale_ForgetsOtherRole(gs, casterFormID, who, nodeKey) ==
    MapPut(gs, casterFormID,
           IF who = "kCaster"
           THEN [StateRef(gs, casterFormID) EXCEPT !.casterTouchedScale = @ \cup {nodeKey},
                                                   !.targetTouchedScale = {}]
           ELSE [StateRef(gs, casterFormID) EXCEPT !.targetTouchedScale = @ \cup {nodeKey},
                                                   !.casterTouchedScale = {}])

MarkTouchedScale(gs, casterFormID, who, nodeKey) ==
    MapPut(gs, casterFormID,
           IF who = "kCaster"
           THEN [StateRef(gs, casterFormID) EXCEPT !.casterTouchedScale = @ \cup {nodeKey}]
           ELSE [StateRef(gs, casterFormID) EXCEPT !.targetTouchedScale = @ \cup {nodeKey}])

MarkTouchedMorph(gs, casterFormID, who) ==
    MapPut(gs, casterFormID,
           IF who = "kCaster"
           THEN [StateRef(gs, casterFormID) EXCEPT !.casterTouchedMorph = TRUE]
           ELSE [StateRef(gs, casterFormID) EXCEPT !.targetTouchedMorph = TRUE])

\* TakeSnapshot that also clears lastTarget
TakeSnapshot_ClearsLastTarget(gs, casterFormID) ==
    LET st == StateRef(gs, casterFormID) IN
    [out |-> [lastTarget |-> st.lastTarget,
              casterScale |-> st.casterTouchedScale,
              targetScale |-> st.targetTouchedScale,
              casterMorph |-> st.casterTouchedMorph,
              targetMorph |-> st.targetTouchedMorph],
     gs |-> MapPut(gs, casterFormID,
                   [st EXCEPT !.lastTarget = NullHandle,
                              !.casterTouchedScale = {},
                              !.targetTouchedScale = {},
                              !.casterTouchedMorph = FALSE,
                              !.targetTouchedMorph = FALSE])]

\* TakeSnapshot returns the snapshot (out) and leaves the entry cleared (gs)
TakeSnapshot(gs, casterFormID) ==
    LET st == StateRef(gs, casterFormID) IN
    [out |-> [lastTarget |-> st.lastTarget,
              casterScale |-> st.casterTouchedScale,
              targetScale |-> st.targetTouchedScale,
              casterMorph |-> st.casterTouchedMorph,
              targetMorph |-> st.targetTouchedMorph],
     gs |-> MapPut(gs, casterFormID,
                   [st EXCEPT !.casterTouchedScale = {},
                              !.targetTouchedScale = {},
                              !.casterTouchedMorph = FALSE,
                              !.targetTouchedMorph = FALSE])]

\* ------------------------------------------------------------------------
\* Mutator calls (FB::Scaler::SetNodeScale, FB::Morph::AddDelta,
\* FB::Morph::ResetAllForActor) as entries of the observation log
\* ------------------------------------------------------------------------
SetNodeScale(actor, nodeKey, scale, owner, token) ==
    [fn |-> "SetNodeScale", actor |-> actor, key |-> nodeKey, value |-> scale,
     owner |-> owner, token |-> token]
AddDelta(actor, morphName, delta, owner, token) ==
    [fn |-> "AddDelta", actor |-> actor, key |-> morphName, value |-> delta,
     owner |-> owner, token |-> token]
ResetAllForActor(actor, owner, token) ==
    [fn |-> "ResetAllForActor", actor |-> actor, key |-> "", value |-> 0,
     owner |-> owner, token |-> token]

\* ------------------------------------------------------------------------
\* Command execution.  R is the running context of one timeline:
\* [st: g_state, tw: g_activeTweens, calls: log, tl: the ActiveTimeline,
\*  live: the actors whose handle resolves in this tick]
\* ------------------------------------------------------------------------
ResolveActor(tl, who) == IF who = "kCaster" THEN tl.caster ELSE tl.target

\* ExecuteScale without the test of the handle
ExecuteScale_NoHandleCheck(R, casterFormID, actor, cmd) ==
    [R EXCEPT
       !.calls = Append(@, SetNodeScale(actor, cmd.nodeKey, cmd.scale,
                                        casterFormID, R.tl.token)),
       !.st = MarkTouchedScale(@, casterFormID, cmd.target, cmd.nodeKey)]

ExecuteScale(R, casterFormID, actor, cmd) ==
    IF actor = NullHandle
    THEN R
    ELSE [R EXCEPT
            !.calls = Append(@, SetNodeScale(actor, cmd.nodeKey, cmd.scale,
                                             casterFormID, R.tl.token)),
            !.st = MarkTouchedScale(@, casterFormID, cmd.target, cmd.nodeKey)]

ExecuteMorphInstant(R, casterFormID, actor, cmd) ==
    IF actor = NullHandle
    THEN R
    ELSE [R EXCEPT
            !.calls = Append(@, AddDelta(actor, cmd.morphName, cmd.delta,
                                         casterFormID, R.tl.token)),
            !.st = MarkTouchedMorph(@, casterFormID, cmd.target)]

\* ScheduleMorphTween that also marks the morph touched
ScheduleMorphTween_AlsoMarks(R, cmd) ==
    LET actor == ResolveActor(R.tl, cmd.target) IN
    IF actor = NullHandle
    THEN R
    ELSE IF actor \notin R.live
    THEN R
    ELSE LET tw == [actor |-> actor,
                    actorFormID |-> actor,
                    casterFormID |-> R.tl.casterFormID,
                    token |-> R.tl.token,
                    who |-> cmd.target,
                    morphName |-> cmd.morphName,
                    totalDelta |-> cmd.delta,
                    appliedSoFar |-> 0,
                    durationSeconds |-> cmd.tweenSeconds,
                    elapsedSeconds |-> 0,
                    touchedMarked |-> FALSE]
         IN [R EXCEPT !.tw = MapPut(@, <<tw.actorFormID, tw.morphName>>, tw),
                      !.st = MarkTouchedMorph(@, R.tl.casterFormID, cmd.target)]

\* ScheduleMorphTween that leaves a tween already under the key in place
ScheduleMorphTween_KeepsExisting(R, cmd) ==
    LET actor == ResolveActor(R.tl, cmd.target) IN
    IF actor = NullHandle
    THEN R
    ELSE IF actor \notin R.live
    THEN R
    ELSE LET tw == [actor |-> actor,
                    actorFormID |-> actor,
                    casterFormID |-> R.tl.casterFormID,
                    token |-> R.tl.token,
                    who |-> cmd.target,
                    morphName |-> cmd.morphName,
                    totalDelta |-> cmd.delta,
                    appliedSoFar |-> 0,
                    durationSeconds |-> cmd.tweenSeconds,
                    elapsedSeconds |-> 0,
                    touchedMarked |-> FALSE]
         IN IF <<tw.actorFormID, tw.morphName>> \in DOMAIN R.tw
            THEN R
            ELSE [R EXCEPT !.tw = MapPut(@, <<tw.actorFormID, tw.morphName>>, tw)]

ScheduleMorphTween(R, cmd) ==
    LET actor == ResolveActor(R.tl, cmd.target) IN
    IF actor = NullHandle
    THEN R
    ELSE IF actor \notin R.live
    THEN R
    ELSE LET tw == [actor |-> actor,
                    actorFormID |-> actor,
                    casterFormID |-> R.tl.casterFormID,
                    token |-> R.tl.token,
                    who |-> cmd.target,
                    morphName |-> cmd.morphName,
                    totalDelta |-> cmd.delta,
                    appliedSoFar |-> 0,
                    durationSeconds |-> cmd.tweenSeconds,
                    elapsedSeconds |-> 0,
                    touchedMarked |-> FALSE]
         IN [R EXCEPT !.tw = MapPut(@, <<tw.actorFormID, tw.morphName>>, tw)]

ExecuteCommand(R, cmd) ==
    LET actorHandle == ResolveActor(R.tl, cmd.target) IN
    IF cmd.kind = "kScale"
    THEN ExecuteScale(R, R.tl.casterFormID, actorHandle, cmd)
    ELSE IF cmd.kind = "kMorph"
    THEN IF cmd.tweenSeconds > 0
         THEN ScheduleMorphTween(R, cmd)
         ELSE ExecuteMorphInstant(R, R.tl.casterFormID, actorHandle, cmd)
    ELSE R

\* the due-command loop leaving after one command
RunDueCommands_OnePerTick(R) ==
    IF R.tl.nextIndex >= Len(R.tl.commands)
    THEN R
    ELSE LET cmd == R.tl.commands[R.tl.nextIndex + 1] IN
         IF cmd.timeSeconds > R.tl.elapsedSeconds
         THEN R
         ELSE [ExecuteCommand(R, cmd) EXCEPT !.tl.nextIndex = @ + 1]

\* while (tl.nextIndex < tl.commands.size()) { ... ++tl.nextIndex; }
RECURSIVE RunDueCommands(_)
RunDueCommands(R) ==
    IF R.tl.nextIndex >= Len(R.tl.commands)
    THEN R
    ELSE LET cmd == R.tl.commands[R.tl.nextIndex + 1] IN
         IF cmd.timeSeconds > R.tl.elapsedSeconds
         THEN R
         ELSE RunDueCommands([ExecuteCommand(R, cmd) EXCEPT !.tl.nextIndex = @ + 1])

\* The timeline loop body erasing the tweens of a timeline together with it
AdvanceTimeline_DropsTweens(W, id, dtSeconds) ==
    LET tl == W.tl[id] IN
    IF ~IsTokenCurrent(W.st, tl.casterFormID, tl.token)
    THEN [W EXCEPT !.tl = MapErase(@, id)]
    ELSE LET R == RunDueCommands([st |-> W.st, tw |-> W.tw, calls |-> W.calls,
                                  live |-> W.live,
                                  tl |-> [tl EXCEPT !.elapsedSeconds = @ + dtSeconds]])
         IN [st |-> R.st, calls |-> R.calls, live |-> W.live,
             tw |-> IF R.tl.nextIndex >= Len(R.tl.commands)
                    THEN [k \in {x \in DOMAIN R.tw :
                                    R.tw[x].casterFormID # tl.casterFormID} |-> R.tw[k]]
                    ELSE R.tw,
             tl |-> IF R.tl.nextIndex >= Len(R.tl.commands)
                    THEN MapErase(W.tl, id)
                    ELSE MapPut(W.tl, id, R.tl)]

\* One iteration of the timeline loop of Update.
\* W is the running state of Update: [st, tl: g_activeTimelines, tw, calls, live]
AdvanceTimeline(W, id, dtSeconds) ==
    LET tl == W.tl[id] IN
    IF ~IsTokenCurrent(W.st, tl.casterFormID, tl.token)
    THEN [W EXCEPT !.tl = MapErase(@, id)]
    ELSE LET R == RunDueCommands([st |-> W.st, tw |-> W.tw, calls |-> W.calls,
                                  live |-> W.live,
                                  tl |-> [tl EXCEPT !.elapsedSeconds = @ + dtSeconds]])
         IN [st |-> R.st, tw |-> R.tw, calls |-> R.calls, live |-> W.live,
             tl |-> IF R.tl.nextIndex >= Len(R.tl.commands)
                    THEN MapErase(W.tl, id)
                    ELSE MapPut(W.tl, id, R.tl)]

RECURSIVE AdvanceTimelines(_, _, _)
AdvanceTimelines(W, order, dtSeconds) ==
    IF order = <<>>
    THEN W
    ELSE AdvanceTimelines(AdvanceTimeline(W, Head(order), dtSeconds), Tail(order), dtSeconds)

\* alpha = clamp(elapsed / duration, 0, 1); targetApplied = totalDelta * alpha
\* (exact arithmetic: the configured deltas are multiples of the durations)
TargetApplied(tw) ==
    (tw.totalDelta * Max(0, Min(tw.elapsedSeconds, tw.durationSeconds))) \div tw.durationSeconds

\* The tween loop body without the store to appliedSoFar
AdvanceTween_KeepsApplied(W, key, dtSeconds) ==
    LET tw == W.tw[key] IN
    IF ~IsTokenCurrent(W.st, tw.casterFormID, tw.token)
    THEN [W EXCEPT !.tw = MapErase(@, key)]
    ELSE IF tw.actor = NullHandle
    THEN [W EXCEPT !.tw = MapErase(@, key)]
    ELSE IF tw.actor \notin W.live
    THEN [W EXCEPT !.tw = MapErase(@, key)]
    ELSE IF tw.durationSeconds <= 0
    THEN [W EXCEPT !.tw = MapErase(@, key)]
    ELSE LET t1 == [tw EXCEPT !.elapsedSeconds = @ + dtSeconds]
             targetApplied == TargetApplied(t1)
             stepDelta == targetApplied - t1.appliedSoFar
             t2 == IF stepDelta # 0
                   THEN [t1 EXCEPT !.touchedMarked = TRUE]
                   ELSE t1
             W1 == IF stepDelta # 0
                   THEN [W EXCEPT
                           !.calls = Append(@, AddDelta(tw.actor, tw.morphName, stepDelta,
                                                        tw.casterFormID, tw.token)),
                           !.st = IF ~tw.touchedMarked
                                  THEN MarkTouchedMorph(@, tw.casterFormID, tw.who)
                                  ELSE @]
                   ELSE W
         IN IF t1.elapsedSeconds >= t1.durationSeconds
            THEN [W1 EXCEPT !.tw = MapErase(@, key)]
            ELSE [W1 EXCEPT !.tw = MapPut(@, key, t2)]

\* The tween loop body erasing a finished tween before its last step
AdvanceTween_ErasesBeforeStep(W, key, dtSeconds) ==
    LET tw == W.tw[key] IN
    IF ~IsTokenCurrent(W.st, tw.casterFormID, tw.token)
    THEN [W EXCEPT !.tw = MapErase(@, key)]
    ELSE IF tw.actor = NullHandle
    THEN [W EXCEPT !.tw = MapErase(@, key)]
    ELSE IF tw.actor \notin W.live
    THEN [W EXCEPT !.tw = MapErase(@, key)]
    ELSE IF tw.durationSeconds <= 0
    THEN [W EXCEPT !.tw = MapErase(@, key)]
    ELSE LET t1 == [tw EXCEPT !.elapsedSeconds = @ + dtSeconds]
             targetApplied == TargetApplied(t1)
             stepDelta == targetApplied - t1.appliedSoFar
             t2 == IF stepDelta # 0
                   THEN [t1 EXCEPT !.touchedMarked = TRUE, !.appliedSoFar = targetApplied]
                   ELSE t1
             W1 == IF stepDelta # 0
                   THEN [W EXCEPT
                           !.calls = Append(@, AddDelta(tw.actor, tw.morphName, stepDelta,
                                                        tw.casterFormID, tw.token)),
                           !.st = IF ~tw.touchedMarked
                                  THEN MarkTouchedMorph(@, tw.casterFormID, tw.who)
                                  ELSE @]
                   ELSE W
         IN IF t1.elapsedSeconds >= t1.durationSeconds
            THEN [W EXCEPT !.tw = MapErase(@, key)]
            ELSE [W1 EXCEPT !.tw = MapPut(@, key, t2)]

\* The tween loop body marking touched whether or not a step is applied
AdvanceTween_MarksAlways(W, key, dtSeconds) ==
    LET tw == W.tw[key] IN
    IF ~IsTokenCurrent(W.st, tw.casterFormID, tw.token)
    THEN [W EXCEPT !.tw = MapErase(@, key)]
    ELSE IF tw.actor = NullHandle
    THEN [W EXCEPT !.tw = MapErase(@, key)]
    ELSE IF tw.actor \notin W.live
    THEN [W EXCEPT !.tw = MapErase(@, key)]
    ELSE IF tw.durationSeconds <= 0
    THEN [W EXCEPT !.tw = MapErase(@, key)]
    ELSE LET t1 == [tw EXCEPT !.elapsedSeconds = @ + dtSeconds]
             targetApplied == TargetApplied(t1)
             stepDelta == targetApplied - t1.appliedSoFar
             t2 == [t1 EXCEPT !.touchedMarked = TRUE, !.appliedSoFar = targetApplied]
             W0 == [W EXCEPT !.st = IF ~tw.touchedMarked
                                    THEN MarkTouchedMorph(@, tw.casterFormID, tw.who)
                                    ELSE @]
             W1 == IF stepDelta # 0
                   THEN [W0 EXCEPT
                           !.calls = Append(@, AddDelta(tw.actor, tw.morphName, stepDelta,
                                                        tw.casterFormID, tw.token))]
                   ELSE W0
         IN IF t1.elapsedSeconds >= t1.durationSeconds
            THEN [W1 EXCEPT !.tw = MapErase(@, key)]
            ELSE [W1 EXCEPT !.tw = MapPut(@, key, t2)]

\* The tween loop body starting a finished tween over instead of erasing it
AdvanceTween_Restarts(W, key, dtSeconds) ==
    LET tw == W.tw[key] IN
    IF ~IsTokenCurrent(W.st, tw.casterFormID, tw.token)
    THEN [W EXCEPT !.tw = MapErase(@, key)]
    ELSE IF tw.actor = NullHandle
    THEN [W EXCEPT !.tw = MapErase(@, key)]
    ELSE IF tw.actor \notin W.live
    THEN [W EXCEPT !.tw = MapErase(@, key)]
    ELSE IF tw.durationSeconds <= 0
    THEN [W EXCEPT !.tw = MapErase(@, key)]
    ELSE LET t1 == [tw EXCEPT !.elapsedSeconds = @ + dtSeconds]
             targetApplied == TargetApplied(t1)
             stepDelta == targetApplied - t1.appliedSoFar
             t2 == IF stepDelta # 0
                   THEN [t1 EXCEPT !.touchedMarked = TRUE, !.appliedSoFar = targetApplied]
                   ELSE t1
             W1 == IF stepDelta # 0
                   THEN [W EXCEPT
                           !.calls = Append(@, AddDelta(tw.actor, tw.morphName, stepDelta,
                                                        tw.casterFormID, tw.token)),
                           !.st = IF ~tw.touchedMarked
                                  THEN MarkTouchedMorph(@, tw.casterFormID, tw.who)
                                  ELSE @]
                   ELSE W
         IN IF t1.elapsedSeconds >= t1.durationSeconds
            THEN [W1 EXCEPT !.tw = MapPut(@, key, [t2 EXCEPT !.elapsedSeconds = 0,
                                                             !.appliedSoFar = 0])]
            ELSE [W1 EXCEPT !.tw = MapPut(@, key, t2)]

\* One iteration of the tween loop of Update
AdvanceTween(W, key, dtSeconds) ==
    LET tw == W.tw[key] IN
    IF ~IsTokenCurrent(W.st, tw.casterFormID, tw.token)
    THEN [W EXCEPT !.tw = MapErase(@, key)]
    ELSE IF tw.actor = NullHandle
    THEN [W EXCEPT !.tw = MapErase(@, key)]
    ELSE IF tw.actor \notin W.live
    THEN [W EXCEPT !.tw = MapErase(@, key)]
    ELSE IF tw.durationSeconds <= 0
    THEN [W EXCEPT !.tw = MapErase(@, key)]
    ELSE LET t1 == [tw EXCEPT !.elapsedSeconds = @ + dtSeconds]
             targetApplied == TargetApplied(t1)
             stepDelta == targetApplied - t1.appliedSoFar
             t2 == IF stepDelta # 0
                   THEN [t1 EXCEPT !.touchedMarked = TRUE, !.appliedSoFar = targetApplied]
                   ELSE t1
             W1 == IF stepDelta # 0
                   THEN [W EXCEPT
                           !.calls = Append(@, AddDelta(tw.actor, tw.morphName, stepDelta,
                                                        tw.casterFormID, tw.token)),
                           !.st = IF ~tw.touchedMarked
                                  THEN MarkTouchedMorph(@, tw.casterFormID, tw.who)
                                  ELSE @]
                   ELSE W
         IN IF t1.elapsedSeconds >= t1.durationSeconds
            THEN [W1 EXCEPT !.tw = MapErase(@, key)]
            ELSE [W1 EXCEPT !.tw = MapPut(@, key, t2)]

RECURSIVE AdvanceTweens(_, _, _)
AdvanceTweens(W, order, dtSeconds) ==
    IF order = <<>>
    THEN W
    ELSE AdvanceTweens(AdvanceTween(W, Head(order), dtSeconds), Tail(order), dtSeconds)

\* ClearTweensForCaster that erases nothing
ClearTweensForCaster_Keeps(tws, casterFormID) ==
    tws

\* ClearTweensForCaster that erases the tweens of every caster
ClearTweensForCaster_AllCasters(tws, casterFormID) ==
    EmptyMap

ClearTweensForCaster(tws, casterFormID) ==
    [k \in {x \in DOMAIN tws : tws[x].casterFormID # casterFormID} |-> tws[k]]

\* The sum of all tokens: the number of token bumps made so far.  The entry
\* points that bump a token are enabled while it is below MaxBumps (below
\* MaxApiBumps where the entry points are called directly).
RECURSIVE SumTokens(_, _)
SumTokens(gs, ids) ==
    IF ids = {}
    THEN 0
    ELSE LET id == CHOOSE x \in ids : TRUE
         IN gs[id].token + SumTokens(gs, ids \ {id})

BumpsSoFar == SumTokens(g_state, DOMAIN g_state)

\* ------------------------------------------------------------------------
\* Entry points
\* ------------------------------------------------------------------------
NoRunLog == [on |-> FALSE, dts |-> <<>>, calls |-> <<>>]

NothingWritten ==
    [casterScale |-> {}, targetScale |-> {}, casterMorph |-> FALSE, targetMorph |-> FALSE]

NoOp ==
    [name |-> "Init", caster |-> NullHandle, target |-> NullHandle, casterFormID |-> 0,
     commands |-> <<>>, ticked |-> FALSE, resetMorphCaster |-> FALSE,
     resetMorphTarget |-> FALSE, before |-> ActorRuntimeState, stale |-> {},
     dtSeconds |-> 0, live |-> {}, cmdCalls |-> 0,
     mid |-> [st |-> EmptyMap, tw |-> EmptyMap], replaced |-> {}, first |-> <<>>]

\* the threads of the model: the game thread, which runs the tasks of
\* g_taskQueue, and the threads that call FB::UpdatePump::Start and Stop
GameThread == "game"
Callers == {"t1", "t2"}

\* ------------------------------------------------------------------------
\* FB::Hide (src/src/FBHide.cpp): the 3D of an actor is a root NiNode with
\* renderable geometry below it.  An object is <<actor, name>>.
\* ------------------------------------------------------------------------
SceneNames == <<"Root", "Body", "Hands">>

\* IsRenderableGeometry: BSGeometry / BSTriShape objects, not plain nodes
IsRenderableGeometry(obj) == obj[2] # "Root"

SceneObjects == {<<a, SceneNames[i]>> : a \in Actors, i \in 1..Len(SceneNames)}

NoHideCall ==
    [op |-> "none", actor |-> NullHandle, hide |-> FALSE, ran |-> FALSE, root |-> FALSE]

\* g_stateByActorID is empty at load; the scene starts with nothing hidden
InitHide ==
    /\ hiddenFlag = [obj \in SceneObjects |-> FALSE]
    /\ g_stateByActorID = EmptyMap
    /\ baselineSeen = EmptyMap
    /\ lastHide = NoHideCall

\* the number of token bumps the animation event handlers have made
RECURSIVE SumOver(_, _)
SumOver(f, ids) ==
    IF ids = {}
    THEN 0
    ELSE LET id == CHOOSE x \in ids : TRUE
         IN f[id] + SumOver(f, ids \ {id})

BumpsOfRouter == SumOver(g_actorState, Actors)

\* FB::CommandRouter before the first call of ScheduleCommands
InitRouter ==
    /\ g_actorState = [c \in Actors |-> 0]
    /\ routerThreads = <<>>
    /\ executed = <<>>

\* FB::Morph and FB::UpdatePump before their first call
InitMorph ==
    /\ g_sticky = EmptyMap
    /\ entries = <<>>
    /\ workers = <<>>
    /\ g_taskQueue = <<>>
    /\ delivered = <<>>

\* the locals perf and dt of PumpOnce outside their lifetime
NoLocals == [perf |-> 0, dt |-> 0]

InitPump ==
    /\ g_running = FALSE
    /\ g_scheduled = FALSE
    /\ g_lastPerf = 0
    /\ lastPerformanceCount = 1
    /\ pumpLocal = NoLocals
    /\ pc = [t \in {GameThread} \cup Callers |-> "idle"]
    /\ afterStop = FALSE
    /\ updatesAfterStop = 0

InitRuntime ==
    /\ InitMorph
    /\ InitPump
    /\ InitHide
    /\ InitRouter
    /\ cfgTimelines = PairTimelines
    /\ g_registeredActors = Actors
    /\ g_state = EmptyMap
    /\ g_activeTimelines = EmptyMap
    /\ g_activeTweens = EmptyMap
    /\ calls = <<>>
    /\ lastOp = NoOp
    /\ lastBump = [c \in Actors |-> [by |-> "none", commands |-> <<>>]]
    /\ scaleWrites = [c \in Actors |-> {}]
    /\ written = [c \in Actors |-> NothingWritten]
    /\ runLog = NoRunLog
    /\ tweenSteps = EmptyMap

Init ==
    /\ InitRuntime
    /\ observeWrites = FALSE
    /\ observeTicks = FALSE

InitHistory ==
    /\ InitRuntime
    /\ observeWrites = TRUE
    /\ observeTicks = FALSE

\* the role a mutator call served: a timeline's caster handle is the handle of
\* the actor whose form ID is its casterFormID, its target is another actor
RoleOf(x) == IF x.actor = x.owner THEN "kCaster" ELSE "kTarget"

\* w extended by what the mutator calls of log wrote on behalf of owner
WrittenBy(log, owner, w) ==
    LET mine(fn, who) == {i \in 1..Len(log) : /\ log[i].fn = fn
                                               /\ log[i].owner = owner
                                               /\ RoleOf(log[i]) = who}
    IN [casterScale |-> w.casterScale \cup {log[i].key : i \in mine("SetNodeScale", "kCaster")},
        targetScale |-> w.targetScale \cup {log[i].key : i \in mine("SetNodeScale", "kTarget")},
        casterMorph |-> w.casterMorph \/ mine("AddDelta", "kCaster") # {},
        targetMorph |-> w.targetMorph \/ mine("AddDelta", "kTarget") # {}]

\* the active tweens whose captured token is not their owner's current token
StaleTweens ==
    {g_activeTweens[k] : k \in {x \in DOMAIN g_activeTweens :
        StateRef(g_state, g_activeTweens[x].casterFormID).token # g_activeTweens[x].token}}

\* the <<actor, nodeKey>> pairs of the SetNodeScale calls of log issued for owner
ScaleWritesOf(log, owner) ==
    {<<log[i].actor, log[i].key>> :
        i \in {k \in 1..Len(log) : log[k].fn = "SetNodeScale" /\ log[k].owner = owner}}

\* StartTimeline that installs the new list without bumping the token
StartTimeline_NoBump(caster, target, casterFormID, commands) ==
    /\ calls' = <<>>
    /\ UNCHANGED <<cfgTimelines, g_registeredActors, g_activeTweens, scaleWrites,
                   observeWrites, tweenSteps, observeTicks, runLog>>
    /\ written' = IF observeWrites /\ caster # NullHandle
                  THEN [written EXCEPT ![casterFormID] = NothingWritten]
                  ELSE written
    /\ IF caster = NullHandle
       THEN /\ lastOp' = [NoOp EXCEPT !.name = "StartTimeline", !.caster = caster,
                                      !.casterFormID = casterFormID,
                                      !.before = StateRef(g_state, casterFormID)]
            /\ UNCHANGED <<g_state, g_activeTimelines, lastBump>>
       ELSE /\ BumpsSoFar < MaxBumps
            /\ lastOp' = [NoOp EXCEPT !.name = "StartTimeline", !.caster = caster,
                                      !.target = target, !.casterFormID = casterFormID,
                                      !.commands = commands,
                                      !.before = StateRef(g_state, casterFormID)]
            /\ lastBump' = [lastBump EXCEPT ![casterFormID] =
                              [by |-> "StartTimeline", commands |-> commands]]
            /\ LET gs1 == MapPut(g_state, casterFormID, StateRef(g_state, casterFormID))
                   token == gs1[casterFormID].token
                   tl == [caster |-> caster,
                          target |-> target,
                          casterFormID |-> casterFormID,
                          token |-> token,
                          elapsedSeconds |-> 0,
                          nextIndex |-> 0,
                          commands |-> commands]
               IN /\ g_state' = SetLastTarget(gs1, casterFormID, target)
                  /\ g_activeTimelines' = MapPut(g_activeTimelines, casterFormID, tl)

\* StartTimeline without the early return on an empty caster handle
StartTimeline_NoNullCheck(caster, target, casterFormID, commands) ==
    /\ calls' = <<>>
    /\ UNCHANGED <<cfgTimelines, g_registeredActors, g_activeTweens, scaleWrites,
                   observeWrites, tweenSteps, observeTicks, runLog>>
    /\ written' = IF observeWrites
                  THEN [written EXCEPT ![casterFormID] = NothingWritten]
                  ELSE written
    /\ BumpsSoFar < MaxBumps
    /\ lastOp' = [NoOp EXCEPT !.name = "StartTimeline", !.caster = caster,
                              !.casterFormID = casterFormID,
                              !.target = IF caster = NullHandle THEN NullHandle ELSE target,
                              !.commands = IF caster = NullHandle THEN <<>> ELSE commands,
                              !.before = StateRef(g_state, casterFormID)]
    /\ lastBump' = [lastBump EXCEPT ![casterFormID] =
                      [by |-> "StartTimeline", commands |-> commands]]
    /\ LET gs1 == BumpToken(g_state, casterFormID)
           token == gs1[casterFormID].token
           tl == [caster |-> caster,
                  target |-> target,
                  casterFormID |-> casterFormID,
                  token |-> token,
                  elapsedSeconds |-> 0,
                  nextIndex |-> 0,
                  commands |-> commands]
       IN /\ g_state' = SetLastTarget(gs1, casterFormID, target)
          /\ g_activeTimelines' = MapPut(g_activeTimelines, casterFormID, tl)

StartTimeline(caster, target, casterFormID, commands) ==
    /\ calls' = <<>>
    /\ UNCHANGED <<cfgTimelines, g_registeredActors, g_activeTweens, scaleWrites,
                   observeWrites, tweenSteps, observeTicks, runLog>>
    /\ written' = IF observeWrites /\ caster # NullHandle
                  THEN [written EXCEPT ![casterFormID] = NothingWritten]
                  ELSE written
    /\ IF caster = NullHandle
       THEN /\ lastOp' = [NoOp EXCEPT !.name = "StartTimeline", !.caster = caster,
                                      !.casterFormID = casterFormID,
                                      !.before = StateRef(g_state, casterFormID)]
            /\ UNCHANGED <<g_state, g_activeTimelines, lastBump>>
       ELSE /\ BumpsSoFar < MaxBumps
            /\ lastOp' = [NoOp EXCEPT !.name = "StartTimeline", !.caster = caster,
                                      !.target = target, !.casterFormID = casterFormID,
                                      !.commands = commands,
                                      !.before = StateRef(g_state, casterFormID)]
            /\ lastBump' = [lastBump EXCEPT ![casterFormID] =
                              [by |-> "StartTimeline", commands |-> commands]]
            /\ LET gs1 == BumpToken(g_state, casterFormID)
                   token == gs1[casterFormID].token
                   tl == [caster |-> caster,
                          target |-> target,
                          casterFormID |-> casterFormID,
                          token |-> token,
                          elapsedSeconds |-> 0,
                          nextIndex |-> 0,
                          commands |-> commands]
               IN /\ g_state' = SetLastTarget(gs1, casterFormID, target)
                  /\ g_activeTimelines' = MapPut(g_activeTimelines, casterFormID, tl)

\* UpdateOutcomes without the early return on dtSeconds <= 0
UpdateOutcomes_NoDtCheck(dtSeconds, live) ==
    LET dt == IF dtSeconds > kMaxDtSeconds THEN kMaxDtSeconds ELSE dtSeconds
    IN UNION {LET W1 == AdvanceTimelines([st |-> g_state, tl |-> g_activeTimelines,
                                          tw |-> g_activeTweens, calls |-> <<>>,
                                          live |-> live],
                                         tlOrder, dt)
              IN {LET W2 == AdvanceTweens(W1, twOrder, dt)
                  IN [st |-> W2.st, tl |-> W2.tl, tw |-> W2.tw, calls |-> W2.calls,
                      cmdCalls |-> Len(W1.calls),
                      mid |-> [st |-> W1.st, tw |-> W1.tw]] :
                  twOrder \in Perms(DOMAIN W1.tw)} :
              tlOrder \in Perms(DOMAIN g_activeTimelines)}

\* UpdateOutcomes without the clamp to kMaxDtSeconds
UpdateOutcomes_NoClamp(dtSeconds, live) ==
    IF dtSeconds <= 0
    THEN {[st |-> g_state, tl |-> g_activeTimelines, tw |-> g_activeTweens,
           calls |-> <<>>, cmdCalls |-> 0, mid |-> NoOp.mid]}
    ELSE UNION {LET W1 == AdvanceTimelines([st |-> g_state, tl |-> g_activeTimelines,
                                            tw |-> g_activeTweens, calls |-> <<>>,
                                            live |-> live],
                                           tlOrder, dtSeconds)
                IN {LET W2 == AdvanceTweens(W1, twOrder, dtSeconds)
                    IN [st |-> W2.st, tl |-> W2.tl, tw |-> W2.tw, calls |-> W2.calls,
                        cmdCalls |-> Len(W1.calls),
                        mid |-> [st |-> W1.st, tw |-> W1.tw]] :
                    twOrder \in Perms(DOMAIN W1.tw)} :
                tlOrder \in Perms(DOMAIN g_activeTimelines)}

\* UpdateOutcomes with the tween loop run before the timeline loop
UpdateOutcomes_TweensFirst(dtSeconds, live) ==
    IF dtSeconds <= 0
    THEN {[st |-> g_state, tl |-> g_activeTimelines, tw |-> g_activeTweens,
           calls |-> <<>>, cmdCalls |-> 0, mid |-> NoOp.mid]}
    ELSE LET dt == IF dtSeconds > kMaxDtSeconds THEN kMaxDtSeconds ELSE dtSeconds
         IN UNION {LET W1 == AdvanceTweens([st |-> g_state, tl |-> g_activeTimelines,
                                            tw |-> g_activeTweens, calls |-> <<>>,
                                            live |-> live],
                                           twOrder, dt)
                   IN {LET W2 == AdvanceTimelines(W1, tlOrder, dt)
                       IN [st |-> W2.st, tl |-> W2.tl, tw |-> W2.tw, calls |-> W2.calls,
                           cmdCalls |-> Len(W1.calls),
                           mid |-> [st |-> W1.st, tw |-> W1.tw]] :
                       tlOrder \in Perms(DOMAIN g_activeTimelines)} :
                   twOrder \in Perms(DOMAIN g_activeTweens)}

\* The results Update(dtSeconds) can produce in the current state, one for
\* every iteration order of the two unordered maps: the maps and the calls
\* on return, the number of calls issued by the timeline loop (cmdCalls) and
\* g_state and g_activeTweens as they are between the two loops (mid).
UpdateOutcomes(dtSeconds, live) ==
    IF dtSeconds <= 0
    THEN {[st |-> g_state, tl |-> g_activeTimelines, tw |-> g_activeTweens,
           calls |-> <<>>, cmdCalls |-> 0, mid |-> NoOp.mid]}
    ELSE LET dt == IF dtSeconds > kMaxDtSeconds THEN kMaxDtSeconds ELSE dtSeconds
         IN UNION {LET W1 == AdvanceTimelines([st |-> g_state, tl |-> g_activeTimelines,
                                               tw |-> g_activeTweens, calls |-> <<>>,
                                               live |-> live],
                                              tlOrder, dt)
                   IN {LET W2 == AdvanceTweens(W1, twOrder, dt)
                       IN [st |-> W2.st, tl |-> W2.tl, tw |-> W2.tw, calls |-> W2.calls,
                           cmdCalls |-> Len(W1.calls),
                           mid |-> [st |-> W1.st, tw |-> W1.tw]] :
                       twOrder \in Perms(DOMAIN W1.tw)} :
                   tlOrder \in Perms(DOMAIN g_activeTimelines)}

\* the value of the step a tween loop handed to AddDelta for the tween under
\* key (0 when it issued none); log is the part of the calls the tween loop made
StepOf(log, key) ==
    IF \E i \in 1..Len(log) : log[i].actor = key[1] /\ log[i].key = key[2]
    THEN log[CHOOSE i \in 1..Len(log) : log[i].actor = key[1] /\ log[i].key = key[2]].value
    ELSE 0

\* tweenSteps after an Update with result out: a tween registered in this
\* tick starts from 0, a tween that is gone is forgotten
NextTweenSteps(out) ==
    LET log == SubSeq(out.calls, out.cmdCalls + 1, Len(out.calls)) IN
    [k \in DOMAIN out.tw |->
        (IF k \in DOMAIN tweenSteps /\ k \in DOMAIN out.mid.tw
            /\ out.mid.tw[k].elapsedSeconds > 0
         THEN tweenSteps[k]
         ELSE 0) + StepOf(log, k)]

\* the tweens active on entry that the timeline loop overwrote
ReplacedTweens(out) ==
    {g_activeTweens[k] : k \in {x \in DOMAIN g_activeTweens \cap DOMAIN out.mid.tw :
                                    out.mid.tw[x] # g_activeTweens[x]}}

Update(dtSeconds, live) ==
    /\ UNCHANGED <<cfgTimelines, g_registeredActors, lastBump, observeWrites, observeTicks>>
    /\ \E out \in UpdateOutcomes(dtSeconds, live) :
         /\ lastOp' = IF observeTicks
                      THEN [NoOp EXCEPT !.name = "Update", !.ticked = (dtSeconds > 0),
                                        !.stale = StaleTweens,
                                        !.dtSeconds = dtSeconds,
                                        !.live = IF dtSeconds > 0 THEN live ELSE {},
                                        !.cmdCalls = out.cmdCalls, !.mid = out.mid,
                                        !.replaced = ReplacedTweens(out)]
                      ELSE [NoOp EXCEPT !.name = "Update", !.ticked = (dtSeconds > 0),
                                        !.stale = StaleTweens]
         /\ g_state' = out.st
         /\ g_activeTimelines' = out.tl
         /\ g_activeTweens' = out.tw
         /\ calls' = out.calls
         /\ tweenSteps' = IF dtSeconds > 0 THEN NextTweenSteps(out) ELSE tweenSteps
         /\ scaleWrites' =
              IF observeWrites
              THEN [c \in Actors |-> scaleWrites[c] \cup ScaleWritesOf(out.calls, c)]
              ELSE scaleWrites
         /\ written' =
              IF observeWrites
              THEN [c \in Actors |-> WrittenBy(out.calls, c, written[c])]
              ELSE written
         /\ runLog' =
              IF runLog.on
              THEN [runLog EXCEPT !.dts = Append(@, dtSeconds), !.calls = @ \o out.calls]
              ELSE runLog

\* CancelAndReset that reads the touched record without clearing it
CancelAndReset_KeepsTouched(caster, casterFormID, resetMorphCaster, resetMorphTarget) ==
    /\ BumpsSoFar < MaxBumps
    /\ lastOp' = [NoOp EXCEPT !.name = "CancelAndReset", !.caster = caster,
                              !.casterFormID = casterFormID,
                              !.resetMorphCaster = resetMorphCaster,
                              !.resetMorphTarget = resetMorphTarget,
                              !.before = StateRef(g_state, casterFormID)]
    /\ lastBump' = [lastBump EXCEPT ![casterFormID] =
                      [by |-> "CancelAndReset", commands |-> <<>>]]
    /\ scaleWrites' = [scaleWrites EXCEPT ![casterFormID] = {}]
    /\ written' = IF observeWrites
                  THEN [written EXCEPT ![casterFormID] = NothingWritten]
                  ELSE written
    /\ UNCHANGED <<cfgTimelines, g_registeredActors, observeWrites, observeTicks, runLog>>
    /\ tweenSteps' = [k \in DOMAIN ClearTweensForCaster(g_activeTweens, casterFormID) |->
                        tweenSteps[k]]
    /\ LET gs1 == MapPut(g_state, casterFormID,
                         [StateRef(g_state, casterFormID) EXCEPT !.token = @ + 1])
           token == gs1[casterFormID].token
           snap == TakeSnapshot(gs1, casterFormID).out
       IN /\ g_state' = gs1
          /\ g_activeTimelines' = MapErase(g_activeTimelines, casterFormID)
          /\ g_activeTweens' = ClearTweensForCaster(g_activeTweens, casterFormID)
          /\ \E cOrder \in Perms(snap.casterScale), tOrder \in Perms(snap.targetScale) :
               calls' =
                 (IF caster # NullHandle
                  THEN [i \in 1..Len(cOrder) |->
                          SetNodeScale(caster, cOrder[i], kIdentityScale, casterFormID, token)]
                       \o (IF resetMorphCaster
                           THEN <<ResetAllForActor(caster, casterFormID, token)>>
                           ELSE <<>>)
                  ELSE <<>>)
                 \o
                 (IF snap.lastTarget # NullHandle
                  THEN [i \in 1..Len(tOrder) |->
                          SetNodeScale(snap.lastTarget, tOrder[i], kIdentityScale,
                                       casterFormID, token)]
                       \o (IF resetMorphTarget
                           THEN <<ResetAllForActor(snap.lastTarget, casterFormID, token)>>
                           ELSE <<>>)
                  ELSE <<>>)

\* CancelAndReset that returns at once on an empty caster handle, as
\* StartTimeline does
CancelAndReset_ReturnsOnNullCaster(caster, casterFormID, resetMorphCaster, resetMorphTarget) ==
    IF caster = NullHandle
    THEN /\ calls' = <<>>
         /\ lastOp' = [NoOp EXCEPT !.name = "CancelAndReset", !.caster = caster,
                                   !.casterFormID = casterFormID,
                                   !.resetMorphCaster = resetMorphCaster,
                                   !.resetMorphTarget = resetMorphTarget,
                                   !.before = StateRef(g_state, casterFormID)]
         /\ UNCHANGED <<cfgTimelines, g_registeredActors, g_state, g_activeTimelines,
                        g_activeTweens, lastBump, scaleWrites, observeWrites,
                        tweenSteps, observeTicks, written, runLog>>
    ELSE
        /\ BumpsSoFar < MaxBumps
        /\ lastOp' = [NoOp EXCEPT !.name = "CancelAndReset", !.caster = caster,
                                  !.casterFormID = casterFormID,
                                  !.resetMorphCaster = resetMorphCaster,
                                  !.resetMorphTarget = resetMorphTarget,
                                  !.before = StateRef(g_state, casterFormID)]
        /\ lastBump' = [lastBump EXCEPT ![casterFormID] =
                          [by |-> "CancelAndReset", commands |-> <<>>]]
        /\ scaleWrites' = [scaleWrites EXCEPT ![casterFormID] = {}]
        /\ written' = IF observeWrites
                      THEN [written EXCEPT ![casterFormID] = NothingWritten]
                      ELSE written
        /\ UNCHANGED <<cfgTimelines, g_registeredActors, observeWrites, observeTicks,
                       runLog>>
        /\ tweenSteps' = [k \in DOMAIN ClearTweensForCaster(g_activeTweens, casterFormID) |->
                            tweenSteps[k]]
        /\ LET gs1 == BumpToken(g_state, casterFormID)
               token == gs1[casterFormID].token
               taken == TakeSnapshot(gs1, casterFormID)
               snap == taken.out
           IN /\ g_state' = taken.gs
              /\ g_activeTimelines' = MapErase(g_activeTimelines, casterFormID)
              /\ g_activeTweens' = ClearTweensForCaster(g_activeTweens, casterFormID)
              /\ \E cOrder \in Perms(snap.casterScale), tOrder \in Perms(snap.targetScale) :
                   calls' =
                     (IF caster # NullHandle
                      THEN [i \in 1..Len(cOrder) |->
                              SetNodeScale(caster, cOrder[i], kIdentityScale, casterFormID, token)]
                           \o (IF resetMorphCaster
                               THEN <<ResetAllForActor(caster, casterFormID, token)>>
                               ELSE <<>>)
                      ELSE <<>>)
                     \o
                     (IF snap.lastTarget # NullHandle
                      THEN [i \in 1..Len(tOrder) |->
                              SetNodeScale(snap.lastTarget, tOrder[i], kIdentityScale,
                                           casterFormID, token)]
                           \o (IF resetMorphTarget
                               THEN <<ResetAllForActor(snap.lastTarget, casterFormID, token)>>
                               ELSE <<>>)
                      ELSE <<>>)

\* CancelAndReset that resets the morphs of a role only when the snapshot
\* says a morph of that role was touched
CancelAndReset_ResetsMorphIfTouched(caster, casterFormID, resetMorphCaster, resetMorphTarget) ==
    /\ BumpsSoFar < MaxBumps
    /\ lastOp' = [NoOp EXCEPT !.name = "CancelAndReset", !.caster = caster,
                              !.casterFormID = casterFormID,
                              !.resetMorphCaster = resetMorphCaster,
                              !.resetMorphTarget = resetMorphTarget,
                              !.before = StateRef(g_state, casterFormID)]
    /\ lastBump' = [lastBump EXCEPT ![casterFormID] =
                      [by |-> "CancelAndReset", commands |-> <<>>]]
    /\ scaleWrites' = [scaleWrites EXCEPT ![casterFormID] = {}]
    /\ written' = IF observeWrites
                  THEN [written EXCEPT ![casterFormID] = NothingWritten]
                  ELSE written
    /\ UNCHANGED <<cfgTimelines, g_registeredActors, observeWrites, observeTicks, runLog>>
    /\ tweenSteps' = [k \in DOMAIN ClearTweensForCaster(g_activeTweens, casterFormID) |->
                        tweenSteps[k]]
    /\ LET gs1 == BumpToken(g_state, casterFormID)
           token == gs1[casterFormID].token
           taken == TakeSnapshot(gs1, casterFormID)
           snap == taken.out
       IN /\ g_state' = taken.gs
          /\ g_activeTimelines' = MapErase(g_activeTimelines, casterFormID)
          /\ g_activeTweens' = ClearTweensForCaster(g_activeTweens, casterFormID)
          /\ \E cOrder \in Perms(snap.casterScale), tOrder \in Perms(snap.targetScale) :
               calls' =
                 (IF caster # NullHandle
                  THEN [i \in 1..Len(cOrder) |->
                          SetNodeScale(caster, cOrder[i], kIdentityScale, casterFormID, token)]
                       \o (IF resetMorphCaster /\ snap.casterMorph
                           THEN <<ResetAllForActor(caster, casterFormID, token)>>
                           ELSE <<>>)
                  ELSE <<>>)
                 \o
                 (IF snap.lastTarget # NullHandle
                  THEN [i \in 1..Len(tOrder) |->
                          SetNodeScale(snap.lastTarget, tOrder[i], kIdentityScale,
                                       casterFormID, token)]
                       \o (IF resetMorphTarget /\ snap.targetMorph
                           THEN <<ResetAllForActor(snap.lastTarget, casterFormID, token)>>
                           ELSE <<>>)
                  ELSE <<>>)

CancelAndReset(caster, casterFormID, resetMorphCaster, resetMorphTarget) ==
    /\ BumpsSoFar < MaxBumps
    /\ lastOp' = [NoOp EXCEPT !.name = "CancelAndReset", !.caster = caster,
                              !.casterFormID = casterFormID,
                              !.resetMorphCaster = resetMorphCaster,
                              !.resetMorphTarget = resetMorphTarget,
                              !.before = StateRef(g_state, casterFormID),
                              !.first = IF lastOp.name = "CancelAndReset"
                                           /\ lastOp.casterFormID = casterFormID
                                        THEN <<lastOp.before>>
                                        ELSE <<>>]
    /\ lastBump' = [lastBump EXCEPT ![casterFormID] =
                      [by |-> "CancelAndReset", commands |-> <<>>]]
    /\ scaleWrites' = [scaleWrites EXCEPT ![casterFormID] = {}]
    /\ written' = IF observeWrites
                  THEN [written EXCEPT ![casterFormID] = NothingWritten]
                  ELSE written
    /\ UNCHANGED <<cfgTimelines, g_registeredActors, observeWrites, observeTicks, runLog>>
    /\ tweenSteps' = [k \in DOMAIN ClearTweensForCaster(g_activeTweens, casterFormID) |->
                        tweenSteps[k]]
    /\ LET gs1 == BumpToken(g_state, casterFormID)
           token == gs1[casterFormID].token
           taken == TakeSnapshot(gs1, casterFormID)
           snap == taken.out
       IN /\ g_state' = taken.gs
          /\ g_activeTimelines' = MapErase(g_activeTimelines, casterFormID)
          /\ g_activeTweens' = ClearTweensForCaster(g_activeTweens, casterFormID)
          /\ \E cOrder \in Perms(snap.casterScale), tOrder \in Perms(snap.targetScale) :
               calls' =
                 (IF caster # NullHandle
                  THEN [i \in 1..Len(cOrder) |->
                          SetNodeScale(caster, cOrder[i], kIdentityScale, casterFormID, token)]
                       \o (IF resetMorphCaster
                           THEN <<ResetAllForActor(caster, casterFormID, token)>>
                           ELSE <<>>)
                  ELSE <<>>)
                 \o
                 (IF snap.lastTarget # NullHandle
                  THEN [i \in 1..Len(tOrder) |->
                          SetNodeScale(snap.lastTarget, tOrder[i], kIdentityScale,
                                       casterFormID, token)]
                       \o (IF resetMorphTarget
                           THEN <<ResetAllForActor(snap.lastTarget, casterFormID, token)>>
                           ELSE <<>>)
                  ELSE <<>>)

\* PlayerUpdateHook::thunk (and, alike, FB::UpdatePump's PumpOnce): the only
\* callers of Update.  A non-positive frame delta is skipped, a large one is
\* clamped, so Update is entered with 0 < dt <= kMaxDtSeconds only.
thunk(a_delta, live) ==
    IF a_delta <= 0
    THEN UNCHANGED vars
    ELSE Update(IF a_delta > kMaxDtSeconds THEN kMaxDtSeconds ELSE a_delta, live)

\* The runtime on its own: its mutator calls are kept in the call log, and
\* FB::Morph and FB::UpdatePump are left aside.
Next ==
    \/ /\ \E casterFormID \in g_registeredActors :
            \E caster \in {NullHandle, casterFormID}, target \in Handles \ {casterFormID},
               commands \in cfgTimelines :
              StartTimeline(caster, target, casterFormID, commands)
       /\ UNCHANGED <<morphVars, pumpVars, hideVars, routerVars>>
    \/ /\ \E a_delta \in DtValues, live \in SUBSET Actors : thunk(a_delta, live)
       /\ UNCHANGED <<morphVars, pumpVars, hideVars, routerVars>>
    \/ /\ \E casterFormID \in g_registeredActors :
            \E caster \in {NullHandle, casterFormID},
               resetMorphCaster \in BOOLEAN, resetMorphTarget \in BOOLEAN :
              CancelAndReset(caster, casterFormID, resetMorphCaster, resetMorphTarget)
       /\ UNCHANGED <<morphVars, pumpVars, hideVars, routerVars>>

Spec == Init /\ [][Next]_vars

\* The same runtime with the history of scale writes recorded
SpecHistory == InitHistory /\ [][Next]_vars

\* ------------------------------------------------------------------------
\* The entry points of FB::ActorManager called directly, Update with any
\* dtSeconds, under a configuration whose timelines register tweens: a
\* tween followed by a late Scale command, a tween with a negative delta on
\* the target that outlives its timeline, and an instant morph followed by
\* a tween whose delta is 0.
\* ------------------------------------------------------------------------
TweenTimelines ==
    {cmds \in {<<MorphCmd("kCaster", 0, "M", 4, 10), ScaleCmd("kTarget", 15, "Head")>>,
               <<MorphCmd("kTarget", 0, "M", -8, 20), ScaleCmd("kCaster", 10, "Head")>>,
               <<MorphCmd("kTarget", 0, "M", 4, 0), MorphCmd("kCaster", 5, "N", 0, 10)>>} :
        IsSorted(cmds)}

InitApi ==
    /\ InitMorph
    /\ InitPump
    /\ InitHide
    /\ InitRouter
    /\ cfgTimelines = TweenTimelines
    /\ g_registeredActors = Actors
    /\ g_state = EmptyMap
    /\ g_activeTimelines = EmptyMap
    /\ g_activeTweens = EmptyMap
    /\ calls = <<>>
    /\ lastOp = NoOp
    /\ lastBump = [c \in Actors |-> [by |-> "none", commands |-> <<>>]]
    /\ scaleWrites = [c \in Actors |-> {}]
    /\ written = [c \in Actors |-> NothingWritten]
    /\ runLog = NoRunLog
    /\ tweenSteps = EmptyMap
    /\ observeWrites = FALSE
    /\ observeTicks = TRUE

NextApi ==
    \/ /\ BumpsSoFar < MaxApiBumps
       /\ \E casterFormID \in g_registeredActors :
            \E caster \in {NullHandle, casterFormID}, target \in Handles \ {casterFormID},
               commands \in cfgTimelines :
              StartTimeline(caster, target, casterFormID, commands)
       /\ UNCHANGED <<morphVars, pumpVars, hideVars, routerVars>>
    \/ /\ \E dtSeconds \in DtValues, live \in SUBSET Actors : Update(dtSeconds, live)
       /\ UNCHANGED <<morphVars, pumpVars, hideVars, routerVars>>
    \/ /\ BumpsSoFar < MaxApiBumps
       /\ \E casterFormID \in g_registeredActors :
            \E caster \in {NullHandle, casterFormID},
               resetMorphCaster \in BOOLEAN, resetMorphTarget \in BOOLEAN :
              CancelAndReset(caster, casterFormID, resetMorphCaster, resetMorphTarget)
       /\ UNCHANGED <<morphVars, pumpVars, hideVars, routerVars>>

SpecApi == InitApi /\ [][NextApi]_vars

\* The API with the game calling Update every frame (the player update hook
\* and the update pump run once per frame): as long as a timeline or a tween
\* is active, a call of Update with a positive frame time keeps being made.
\* This is weak fairness of the positive Update call, with its enabling
\* condition written out: the call changes the state whenever something is
\* active.
Drained == g_activeTimelines = EmptyMap /\ g_activeTweens = EmptyMap

\* the step is a call of Update with dtSeconds > 0
PositiveUpdate == lastOp'.name = "Update" /\ lastOp'.ticked

SpecDrain ==
    /\ InitApi
    /\ [][NextApi]_vars
    /\ ([]<>Drained \/ []<><<PositiveUpdate>>_vars)

\* ------------------------------------------------------------------------
\* The end-to-end scenario: the timeline [(Caster, Scale, t=0, Head, 0.5),
\* (Target, Scale, t=0, Head, 0.5), (Caster, Morph, t=2.0, Belly, +20,
\* tween 1.0)] is started before the first tick and Update is then called
\* with 0.1 s or 2.0 s, the handles staying valid (every actor resolves in
\* every tick).
\* ------------------------------------------------------------------------
ScenarioTimeline ==
    <<ScaleCmd("kCaster", 0, "Head"), ScaleCmd("kTarget", 0, "Head"),
      MorphCmd("kCaster", 80, "Belly", 20, 40)>>

ScenarioDts == {4, 80}

InitScenario ==
    /\ InitMorph
    /\ InitPump
    /\ InitHide
    /\ InitRouter
    /\ cfgTimelines = {ScenarioTimeline}
    /\ g_registeredActors = Actors
    /\ g_state = EmptyMap
    /\ g_activeTimelines = EmptyMap
    /\ g_activeTweens = EmptyMap
    /\ calls = <<>>
    /\ lastOp = NoOp
    /\ lastBump = [c \in Actors |-> [by |-> "none", commands |-> <<>>]]
    /\ scaleWrites = [c \in Actors |-> {}]
    /\ written = [c \in Actors |-> NothingWritten]
    /\ tweenSteps = EmptyMap
    /\ observeWrites = FALSE
    /\ observeTicks = TRUE
    /\ runLog = [NoRunLog EXCEPT !.on = TRUE]

NextScenario ==
    \/ /\ runLog.dts = <<>>
       /\ BumpsSoFar < MaxApiBumps
       /\ \E casterFormID \in g_registeredActors :
            \E caster \in {NullHandle, casterFormID}, target \in Handles \ {casterFormID},
               commands \in cfgTimelines :
              StartTimeline(caster, target, casterFormID, commands)
       /\ UNCHANGED <<morphVars, pumpVars, hideVars, routerVars>>
    \/ /\ Len(runLog.dts) < MaxScenarioTicks
       /\ \E dtSeconds \in ScenarioDts : Update(dtSeconds, Actors)
       /\ UNCHANGED <<morphVars, pumpVars, hideVars, routerVars>>

SpecScenario == InitScenario /\ [][NextScenario]_vars

\* ------------------------------------------------------------------------
\* FB::Morph (src/src/FBMorph.cpp): the sticky entries, their detached
\* worker threads and the tasks they hand to the game thread.
\*  - A StickyEntry lives on the heap behind a shared_ptr: entries holds
\*    every entry created, g_sticky the ones the map still points to.
\*  - The values (g_values, the tween fields of StickyEntry) decide neither
\*    which threads run nor which tasks are queued and are left out; pending
\*    says that AddDelta has changed the entry's value since a worker last
\*    copied it (valueToApply = entry->value) for its next AddTask.
\*  - holdUntil is a point in time: held says that it has not passed yet.
\*  - g_taskQueue is the task queue of SKSE::GetTaskInterface(), consumed in
\*    order by the game thread; delivered is the observation log of the
\*    tasks the game thread has run.
\*  - Each function of FB::Morph runs on the calling (game) thread; its two
\*    sections under g_mutex and the start of the worker are taken as one
\*    step.  The worker threads interleave with it step by step.
\* M is the state of FB::Morph: [sticky, entries, workers, queue]
\* ------------------------------------------------------------------------
StickyOf(M, formID, key) ==
    IF <<formID, key>> \in DOMAIN M.sticky THEN M.sticky[<<formID, key>>] ELSE 0

\* EnsureStickyWorker: one worker per entry at a time (entry->running)
EnsureStickyWorker(M, e) ==
    IF M.entries[e].running
    THEN M
    ELSE [M EXCEPT !.entries[e].running = TRUE,
                   !.workers = Append(@, [entry |-> e, pc |-> "sleep"])]

\* FB::Morph::AddDelta(actor, morphKey, delta, logOps); live: the actors whose
\* handle resolves
MorphAddDelta(M, actor, morphKey, live) ==
    IF actor \notin live
    THEN M
    ELSE IF morphKey = ""
    THEN M
    ELSE LET old == StickyOf(M, actor, morphKey)
             e == IF old # 0 THEN old ELSE Len(M.entries) + 1
             M1 == IF old # 0
                   THEN [M EXCEPT !.entries[e].held = TRUE, !.entries[e].pending = TRUE]
                   ELSE [M EXCEPT
                           !.entries = Append(@, [formID |-> actor, logicalKey |-> morphKey,
                                                  running |-> FALSE, held |-> TRUE,
                                                  pending |-> TRUE]),
                           !.sticky = MapPut(@, <<actor, morphKey>>, e)]
         IN EnsureStickyWorker(M1, e)

\* the entries created so far for the actor with this form ID
EntriesOf(M, formID) ==
    {e \in 1..Len(M.entries) : M.entries[e].formID = formID}

\* FB::Morph::ResetAllForActor(actor, logOps).  The task records the entries
\* that existed for the actor when it was queued (before).
MorphResetAllForActor(M, actor, live) ==
    IF actor \notin live
    THEN M
    ELSE [M EXCEPT
            !.sticky = [k \in {x \in DOMAIN M.sticky : x[1] # actor} |-> M.sticky[k]],
            !.queue = Append(@, [fn |-> "FBClearMorphs", actor |-> actor, entry |-> 0,
                                 before |-> EntriesOf(M, actor)])]

\* the mutator calls of one entry point, in the order issued, applied to
\* FB::Morph (FB::Scaler keeps no state of its own)
RECURSIVE ApplyMutatorCalls(_, _, _)
ApplyMutatorCalls(M, log, live) ==
    IF log = <<>>
    THEN M
    ELSE LET x == Head(log)
             M1 == IF x.fn = "AddDelta" THEN MorphAddDelta(M, x.actor, x.key, live)
                   ELSE IF x.fn = "ResetAllForActor" THEN MorphResetAllForActor(M, x.actor, live)
                   ELSE M
         IN ApplyMutatorCalls(M1, Tail(log), live)

MorphState ==
    [sticky |-> g_sticky, entries |-> entries, workers |-> workers, queue |-> g_taskQueue]

\* the calls the entry point of this step issued take effect in FB::Morph
MutatorsRun(live) ==
    LET M == ApplyMutatorCalls(MorphState, calls', live)
    IN /\ g_sticky' = M.sticky
       /\ entries' = M.entries
       /\ workers' = M.workers
       /\ g_taskQueue' = M.queue
       /\ UNCHANGED delivered

\* The worker thread t wakes up from sleep_for and, under g_mutex, leaves the
\* loop when the hold window has expired and otherwise copies the value to
\* apply.
WorkerWakes(t) ==
    /\ workers[t].pc = "sleep"
    /\ workers' = [workers EXCEPT ![t].pc = IF entries[workers[t].entry].held
                                            THEN "post" ELSE "exit"]
    /\ entries' = IF entries[workers[t].entry].held
                  THEN [entries EXCEPT ![workers[t].entry].pending = FALSE]
                  ELSE entries
    /\ UNCHANGED <<g_sticky, g_taskQueue, delivered>>

\* task->AddTask([actor, morphNameCopy, valueToApply] ...)
WorkerPosts(t) ==
    /\ workers[t].pc = "post"
    /\ Len(g_taskQueue) + Len(delivered) < MaxTasks
    /\ g_taskQueue' = Append(g_taskQueue,
                             [fn |-> "FBSetMorph",
                              actor |-> entries[workers[t].entry].formID,
                              entry |-> workers[t].entry, before |-> {}])
    /\ workers' = [workers EXCEPT ![t].pc = "sleep"]
    /\ UNCHANGED <<g_sticky, entries, delivered>>

\* entry->running.store(false)
WorkerStops(t) ==
    /\ workers[t].pc = "exit"
    /\ entries' = [entries EXCEPT ![workers[t].entry].running = FALSE]
    /\ workers' = [workers EXCEPT ![t].pc = "cleanup"]
    /\ UNCHANGED <<g_sticky, g_taskQueue, delivered>>

\* the worker erases its entry from g_sticky if it is still the current one,
\* and ends
WorkerCleansUp(t) ==
    /\ workers[t].pc = "cleanup"
    /\ LET e == workers[t].entry
           k == <<entries[e].formID, entries[e].logicalKey>>
       IN g_sticky' = IF StickyOf(MorphState, k[1], k[2]) = e
                      THEN MapErase(g_sticky, k)
                      ELSE g_sticky
    /\ workers' = [workers EXCEPT ![t].pc = "done"]
    /\ UNCHANGED <<entries, g_taskQueue, delivered>>

\* time passes beyond holdUntil of entry e
HoldExpires(e) ==
    /\ entries[e].held
    /\ entries' = [entries EXCEPT ![e].held = FALSE]
    /\ UNCHANGED <<g_sticky, workers, g_taskQueue, delivered>>

\* the game thread runs the next task of FB::Morph in the queue
RunMorphTask ==
    /\ g_taskQueue # <<>>
    /\ Head(g_taskQueue).fn \in {"FBSetMorph", "FBClearMorphs"}
    /\ delivered' = Append(delivered, Head(g_taskQueue))
    /\ g_taskQueue' = Tail(g_taskQueue)
    /\ UNCHANGED <<g_sticky, entries, workers>>

\* ------------------------------------------------------------------------
\* The runtime together with FB::Morph: the mutator calls of Update and
\* CancelAndReset take effect in FB::Morph within the same step, the worker
\* threads run in between, and the game thread runs the queued tasks.
\* ------------------------------------------------------------------------
MorphTimelines ==
    {<<MorphCmd("kCaster", 0, "M", 4, 0)>>,
     <<MorphCmd("kTarget", 0, "M", 4, kMaxDtSeconds)>>}

InitWithMorph ==
    /\ InitMorph
    /\ InitPump
    /\ InitHide
    /\ InitRouter
    /\ cfgTimelines = MorphTimelines
    /\ g_registeredActors = {1}
    /\ g_state = EmptyMap
    /\ g_activeTimelines = EmptyMap
    /\ g_activeTweens = EmptyMap
    /\ calls = <<>>
    /\ lastOp = NoOp
    /\ lastBump = [c \in Actors |-> [by |-> "none", commands |-> <<>>]]
    /\ scaleWrites = [c \in Actors |-> {}]
    /\ written = [c \in Actors |-> NothingWritten]
    /\ runLog = NoRunLog
    /\ tweenSteps = EmptyMap
    /\ observeWrites = FALSE
    /\ observeTicks = FALSE

\* a call of FB::ActorManager::Update
UpdateCall ==
    \E live \in SUBSET Actors :
       /\ Update(kMaxDtSeconds, live)
       /\ MutatorsRun(live)
       /\ UNCHANGED <<pumpVars, hideVars, routerVars>>

\* a call of FB::ActorManager::CancelAndReset
CancelAndResetCall ==
    /\ BumpsSoFar < MaxApiBumps
    /\ \E casterFormID \in g_registeredActors :
         \E caster \in {NullHandle, casterFormID}, live \in SUBSET Actors,
            resetMorphCaster \in BOOLEAN, resetMorphTarget \in BOOLEAN :
           /\ CancelAndReset(caster, casterFormID, resetMorphCaster, resetMorphTarget)
           /\ MutatorsRun(live)
           /\ UNCHANGED <<pumpVars, hideVars, routerVars>>

NextWithMorph ==
    \/ /\ BumpsSoFar < MaxApiBumps
       /\ \E casterFormID \in g_registeredActors :
            \E caster \in {NullHandle, casterFormID}, target \in Handles \ {casterFormID},
               commands \in cfgTimelines :
              StartTimeline(caster, target, casterFormID, commands)
       /\ UNCHANGED <<morphVars, pumpVars, hideVars, routerVars>>
    \/ UpdateCall
    \/ CancelAndResetCall
    \/ /\ \E t \in 1..Len(workers) : WorkerWakes(t)
       /\ UNCHANGED <<runtimeVars, pumpVars, hideVars, routerVars>>
    \/ /\ \E t \in 1..Len(workers) : WorkerPosts(t)
       /\ UNCHANGED <<runtimeVars, pumpVars, hideVars, routerVars>>
    \/ /\ \E t \in 1..Len(workers) : WorkerStops(t)
       /\ UNCHANGED <<runtimeVars, pumpVars, hideVars, routerVars>>
    \/ /\ \E t \in 1..Len(workers) : WorkerCleansUp(t)
       /\ UNCHANGED <<runtimeVars, pumpVars, hideVars, routerVars>>
    \/ /\ \E e \in 1..Len(entries) : HoldExpires(e)
       /\ UNCHANGED <<runtimeVars, pumpVars, hideVars, routerVars>>
    \/ /\ RunMorphTask
       /\ UNCHANGED <<runtimeVars, pumpVars, hideVars, routerVars>>

SpecWithMorph == InitWithMorph /\ [][NextWithMorph]_vars

\* ------------------------------------------------------------------------
\* FB::Morph on its own: AddDelta and ResetAllForActor are called with any
\* actor at any time, the worker threads and the game thread's task queue
\* run in between.  Every started thread keeps being scheduled and the game
\* thread keeps running its tasks.  The hold window (1.25 s after AddDelta)
\* outlasts the worker's sleep (50 ms): it does not expire between an
\* AddDelta and the next wake-up of a worker that is in its loop on the entry.
\* ------------------------------------------------------------------------
MaxWorkers == 2

InLoop(t) == workers[t].pc \in {"sleep", "post"}

AddDeltaCall(actor, morphKey, live) ==
    /\ Len(workers) < MaxWorkers
    /\ LET M == MorphAddDelta(MorphState, actor, morphKey, live)
       IN /\ g_sticky' = M.sticky
          /\ entries' = M.entries
          /\ workers' = M.workers
          /\ g_taskQueue' = M.queue
    /\ UNCHANGED <<delivered, runtimeVars, pumpVars, hideVars, routerVars>>

ResetAllForActorCall(actor, live) ==
    /\ Len(g_taskQueue) + Len(delivered) < MaxTasks
    /\ LET M == MorphResetAllForActor(MorphState, actor, live)
       IN /\ g_sticky' = M.sticky
          /\ entries' = M.entries
          /\ workers' = M.workers
          /\ g_taskQueue' = M.queue
    /\ UNCHANGED <<delivered, runtimeVars, pumpVars, hideVars, routerVars>>

\* one step of the worker thread t
WorkerStep(t) ==
    /\ t \in 1..Len(workers)
    /\ \/ WorkerWakes(t)
       \/ WorkerPosts(t)
       \/ WorkerStops(t)
       \/ WorkerCleansUp(t)
    /\ UNCHANGED <<runtimeVars, pumpVars, hideVars, routerVars>>

\* Clock::now() passes holdUntil of entry e
HoldWindowEnds(e) ==
    /\ ~(entries[e].pending /\ \E t \in 1..Len(workers) : workers[t].entry = e /\ InLoop(t))
    /\ HoldExpires(e)
    /\ UNCHANGED <<runtimeVars, pumpVars, hideVars, routerVars>>

GameThreadRunsTask ==
    /\ RunMorphTask
    /\ UNCHANGED <<runtimeVars, pumpVars, hideVars, routerVars>>

NextMorphApi ==
    \/ \E actor \in Actors, live \in SUBSET Actors : AddDeltaCall(actor, "M", live)
    \/ \E actor \in Actors, live \in SUBSET Actors : ResetAllForActorCall(actor, live)
    \/ \E t \in 1..Len(workers) : WorkerStep(t)
    \/ \E e \in 1..Len(entries) : HoldWindowEnds(e)
    \/ GameThreadRunsTask

SpecMorphApi ==
    /\ InitWithMorph
    /\ [][NextMorphApi]_vars
    /\ \A t \in 1..MaxWorkers : WF_vars(WorkerStep(t))
    /\ WF_vars(GameThreadRunsTask)

\* ------------------------------------------------------------------------
\* FB::UpdatePump (src/src/FBUpdatePump.cpp): Start, Stop, SchedulePump and
\* PumpOnce.  PumpOnce runs on the game thread as a task of g_taskQueue;
\* Start and Stop are called from the threads of Callers.  Every access to
\* one of the atomics g_running, g_scheduled, g_lastPerf is a step of its
\* own; pc[t] is the position of thread t:
\*   "idle"            outside Start and PumpOnce
\*   "start_store"     Start: after the compare-exchange on g_running
\*   "sched_load", "sched_cas", "sched_add"   SchedulePump
\*   "store_scheduled", "load_running", "timer", "store_perf", "update"
\*                     PumpOnce (game thread only)
\* lastPerformanceCount is the field of the engine's BSTimer, advanced by the
\* engine between tasks.  afterStop and updatesAfterStop observe the calls:
\* a Stop was made and no Start since; the Update calls made since then.
\* ------------------------------------------------------------------------
PumpTask == [fn |-> "PumpOnce", actor |-> NullHandle, entry |-> 0, before |-> {}]

\* FB::UpdatePump::Start by thread t, up to the compare-exchange on g_running
Start(t) ==
    /\ pc[t] = "idle"
    /\ afterStop' = FALSE
    /\ updatesAfterStop' = 0
    /\ IF g_running
       THEN UNCHANGED <<g_running, pc>>
       ELSE /\ g_running' = TRUE
            /\ pc' = [pc EXCEPT ![t] = "start_store"]
    /\ UNCHANGED <<g_scheduled, g_lastPerf, lastPerformanceCount, pumpLocal, g_taskQueue>>

\* g_lastPerf.store(0), then SchedulePump()
StartStoresPerf(t) ==
    /\ pc[t] = "start_store"
    /\ g_lastPerf' = 0
    /\ pc' = [pc EXCEPT ![t] = "sched_load"]
    /\ UNCHANGED <<g_running, g_scheduled, lastPerformanceCount, pumpLocal, g_taskQueue,
                   afterStop, updatesAfterStop>>

\* Stop that leaves g_running alone
Stop_NoStore(t) ==
    /\ pc[t] = "idle"
    /\ afterStop' = TRUE
    /\ updatesAfterStop' = IF afterStop THEN updatesAfterStop ELSE 0
    /\ UNCHANGED <<g_running, g_scheduled, g_lastPerf, lastPerformanceCount, pumpLocal,
                   g_taskQueue, pc>>

\* FB::UpdatePump::Stop by thread t
Stop(t) ==
    /\ pc[t] = "idle"
    /\ g_running' = FALSE
    /\ afterStop' = TRUE
    /\ updatesAfterStop' = IF afterStop THEN updatesAfterStop ELSE 0
    /\ UNCHANGED <<g_scheduled, g_lastPerf, lastPerformanceCount, pumpLocal, g_taskQueue, pc>>

\* SchedulePump: if (!g_running.load()) return;
SchedulePumpLoads(t) ==
    /\ pc[t] = "sched_load"
    /\ pc' = [pc EXCEPT ![t] = IF g_running THEN "sched_cas" ELSE "idle"]
    /\ UNCHANGED <<g_running, g_scheduled, g_lastPerf, lastPerformanceCount, pumpLocal,
                   g_taskQueue, afterStop, updatesAfterStop>>

\* SchedulePump: g_scheduled.compare_exchange_strong(expected = false, true)
SchedulePumpExchanges(t) ==
    /\ pc[t] = "sched_cas"
    /\ IF g_scheduled
       THEN /\ pc' = [pc EXCEPT ![t] = "idle"]
            /\ UNCHANGED g_scheduled
       ELSE /\ pc' = [pc EXCEPT ![t] = "sched_add"]
            /\ g_scheduled' = TRUE
    /\ UNCHANGED <<g_running, g_lastPerf, lastPerformanceCount, pumpLocal, g_taskQueue,
                   afterStop, updatesAfterStop>>

\* SchedulePump: SKSE::GetTaskInterface()->AddTask(task)
SchedulePumpAdds(t) ==
    /\ pc[t] = "sched_add"
    /\ g_taskQueue' = Append(g_taskQueue, PumpTask)
    /\ pc' = [pc EXCEPT ![t] = "idle"]
    /\ UNCHANGED <<g_running, g_scheduled, g_lastPerf, lastPerformanceCount, pumpLocal,
                   afterStop, updatesAfterStop>>

\* the game thread takes the PumpOnce task at the head of the queue
RunPumpTask ==
    /\ pc[GameThread] = "idle"
    /\ g_taskQueue # <<>>
    /\ Head(g_taskQueue).fn = "PumpOnce"
    /\ g_taskQueue' = Tail(g_taskQueue)
    /\ pc' = [pc EXCEPT ![GameThread] = "store_scheduled"]
    /\ UNCHANGED <<g_running, g_scheduled, g_lastPerf, lastPerformanceCount, pumpLocal,
                   afterStop, updatesAfterStop>>

\* PumpOnce: g_scheduled.store(false)
PumpOnceClearsScheduled ==
    /\ pc[GameThread] = "store_scheduled"
    /\ g_scheduled' = FALSE
    /\ pc' = [pc EXCEPT ![GameThread] = "load_running"]
    /\ UNCHANGED <<g_running, g_lastPerf, lastPerformanceCount, pumpLocal, g_taskQueue,
                   afterStop, updatesAfterStop>>

\* PumpOnce: if (!g_running.load()) return;
PumpOnceLoadsRunning ==
    /\ pc[GameThread] = "load_running"
    /\ pc' = [pc EXCEPT ![GameThread] = IF g_running THEN "timer" ELSE "idle"]
    /\ UNCHANGED <<g_running, g_scheduled, g_lastPerf, lastPerformanceCount, pumpLocal,
                   g_taskQueue, afterStop, updatesAfterStop>>

\* PumpOnce that returns without SchedulePump when there is no timer or the
\* performance counter has not advanced
PumpOnceReadsTimer_NoReschedule(timer) ==
    /\ pc[GameThread] = "timer"
    /\ IF ~timer \/ lastPerformanceCount = g_lastPerf
       THEN /\ pc' = [pc EXCEPT ![GameThread] = "idle"]
            /\ UNCHANGED pumpLocal
       ELSE /\ pc' = [pc EXCEPT ![GameThread] = "store_perf"]
            /\ pumpLocal' = [pumpLocal EXCEPT !.perf = lastPerformanceCount]
    /\ UNCHANGED <<g_running, g_scheduled, g_lastPerf, lastPerformanceCount, g_taskQueue,
                   afterStop, updatesAfterStop>>

\* PumpOnce: no timer yet, or the performance counter has not advanced since
\* g_lastPerf: SchedulePump and return
PumpOnceReadsTimer(timer) ==
    /\ pc[GameThread] = "timer"
    /\ IF ~timer \/ lastPerformanceCount = g_lastPerf
       THEN /\ pc' = [pc EXCEPT ![GameThread] = "sched_load"]
            /\ UNCHANGED pumpLocal
       ELSE /\ pc' = [pc EXCEPT ![GameThread] = "store_perf"]
            /\ pumpLocal' = [pumpLocal EXCEPT !.perf = lastPerformanceCount]
    /\ UNCHANGED <<g_running, g_scheduled, g_lastPerf, lastPerformanceCount, g_taskQueue,
                   afterStop, updatesAfterStop>>

\* PumpOnce: g_lastPerf.store(perf); dt = timer->delta, skipped when <= 0 and
\* clamped to kMaxDtSeconds (perf is not read again)
PumpOnceStoresPerf(delta) ==
    /\ pc[GameThread] = "store_perf"
    /\ g_lastPerf' = pumpLocal.perf
    /\ IF delta <= 0
       THEN /\ pc' = [pc EXCEPT ![GameThread] = "sched_load"]
            /\ pumpLocal' = NoLocals
       ELSE /\ pc' = [pc EXCEPT ![GameThread] = "update"]
            /\ pumpLocal' = [NoLocals EXCEPT !.dt = IF delta > kMaxDtSeconds
                                                    THEN kMaxDtSeconds ELSE delta]
    /\ UNCHANGED <<g_running, g_scheduled, lastPerformanceCount, g_taskQueue,
                   afterStop, updatesAfterStop>>

\* PumpOnce: FB::ActorManager::Update(dt), then SchedulePump()
PumpOnceUpdates(live) ==
    /\ pc[GameThread] = "update"
    /\ Update(pumpLocal.dt, live)
    /\ pc' = [pc EXCEPT ![GameThread] = "sched_load"]
    /\ pumpLocal' = NoLocals
    /\ updatesAfterStop' = IF afterStop THEN Min(updatesAfterStop + 1, 2) ELSE updatesAfterStop
    /\ UNCHANGED <<g_running, g_scheduled, g_lastPerf, lastPerformanceCount,
                   g_taskQueue, afterStop>>

\* the engine advances the frame's performance counter between two tasks
NewFrame ==
    /\ pc[GameThread] = "idle"
    /\ lastPerformanceCount < MaxFrames
    /\ lastPerformanceCount' = lastPerformanceCount + 1
    /\ UNCHANGED <<g_running, g_scheduled, g_lastPerf, pumpLocal, g_taskQueue, pc,
                   afterStop, updatesAfterStop>>

\* ------------------------------------------------------------------------
\* The pump driving the runtime: Start and Stop from the calling threads,
\* the PumpOnce tasks on the game thread (which call Update), the frames of
\* the engine, and StartTimeline on the game thread between two tasks.  The
\* mutator calls of Update are kept in the call log.
\* ------------------------------------------------------------------------
PumpTimeline == <<ScaleCmd("kCaster", 0, "Head"), ScaleCmd("kTarget", kMaxDtSeconds, "Head")>>

\* the values of timer->delta
TimerDeltas == {0, kMaxDtSeconds + 1}

InitWithPump ==
    /\ InitMorph
    /\ InitPump
    /\ InitHide
    /\ InitRouter
    /\ cfgTimelines = {PumpTimeline}
    /\ g_registeredActors = {1}
    /\ g_state = EmptyMap
    /\ g_activeTimelines = EmptyMap
    /\ g_activeTweens = EmptyMap
    /\ calls = <<>>
    /\ lastOp = NoOp
    /\ lastBump = [c \in Actors |-> [by |-> "none", commands |-> <<>>]]
    /\ scaleWrites = [c \in Actors |-> {}]
    /\ written = [c \in Actors |-> NothingWritten]
    /\ runLog = NoRunLog
    /\ tweenSteps = EmptyMap
    /\ observeWrites = FALSE
    /\ observeTicks = FALSE

\* the steps of the game thread in PumpOnce outside its call of Update
PumpOnceStep ==
    \/ /\ RunPumpTask
       /\ UNCHANGED <<runtimeVars, g_sticky, entries, workers, delivered, hideVars, routerVars>>
    \/ /\ PumpOnceClearsScheduled
       /\ UNCHANGED <<runtimeVars, g_sticky, entries, workers, delivered, hideVars, routerVars>>
    \/ /\ PumpOnceLoadsRunning
       /\ UNCHANGED <<runtimeVars, g_sticky, entries, workers, delivered, hideVars, routerVars>>
    \/ /\ \E timer \in BOOLEAN : PumpOnceReadsTimer(timer)
       /\ UNCHANGED <<runtimeVars, g_sticky, entries, workers, delivered, hideVars, routerVars>>
    \/ /\ \E delta \in TimerDeltas : PumpOnceStoresPerf(delta)
       /\ UNCHANGED <<runtimeVars, g_sticky, entries, workers, delivered, hideVars, routerVars>>
    \/ /\ SchedulePumpLoads(GameThread)
       /\ UNCHANGED <<runtimeVars, g_sticky, entries, workers, delivered, hideVars, routerVars>>
    \/ /\ SchedulePumpExchanges(GameThread)
       /\ UNCHANGED <<runtimeVars, g_sticky, entries, workers, delivered, hideVars, routerVars>>
    \/ /\ SchedulePumpAdds(GameThread)
       /\ UNCHANGED <<runtimeVars, g_sticky, entries, workers, delivered, hideVars, routerVars>>

\* the call of Update in PumpOnce
PumpOnceUpdateStep ==
    /\ PumpOnceUpdates(Actors)
    /\ UNCHANGED <<g_sticky, entries, workers, delivered, hideVars, routerVars>>

\* The call of Update returns: Update has no loop that waits and is defined
\* on every state, so the step is possible whenever the game thread is at
\* the call, and it is the only step from there.
UpdateReturns ==
    /\ pc[GameThread] = "update"
    /\ pc' = [pc EXCEPT ![GameThread] = "sched_load"]

\* the steps of thread t inside Start
CallerStep(t) ==
    \/ /\ StartStoresPerf(t)
       /\ UNCHANGED <<runtimeVars, g_sticky, entries, workers, delivered, hideVars, routerVars>>
    \/ /\ SchedulePumpLoads(t)
       /\ UNCHANGED <<runtimeVars, g_sticky, entries, workers, delivered, hideVars, routerVars>>
    \/ /\ SchedulePumpExchanges(t)
       /\ UNCHANGED <<runtimeVars, g_sticky, entries, workers, delivered, hideVars, routerVars>>
    \/ /\ SchedulePumpAdds(t)
       /\ UNCHANGED <<runtimeVars, g_sticky, entries, workers, delivered, hideVars, routerVars>>

NextWithPump ==
    \/ /\ \E t \in Callers : Start(t)
       /\ UNCHANGED <<runtimeVars, g_sticky, entries, workers, delivered, hideVars, routerVars>>
    \/ /\ \E t \in Callers : Stop(t)
       /\ UNCHANGED <<runtimeVars, g_sticky, entries, workers, delivered, hideVars, routerVars>>
    \/ \E t \in Callers : CallerStep(t)
    \/ PumpOnceStep
    \/ PumpOnceUpdateStep
    \/ /\ NewFrame
       /\ UNCHANGED <<runtimeVars, g_sticky, entries, workers, delivered, hideVars, routerVars>>
    \/ /\ pc[GameThread] = "idle"
       /\ BumpsSoFar < MaxPumpBumps
       /\ StartTimeline(1, 2, 1, PumpTimeline)
       /\ UNCHANGED <<morphVars, pumpVars, hideVars, routerVars>>

\* A thread that is inside Start goes on, and the game thread runs the tasks
\* of its queue: the steps of the code are taken when they can be.  Nothing
\* obliges a thread to call Start or Stop, the engine to advance the frame or
\* the host to start a timeline.
SpecWithPump ==
    /\ InitWithPump
    /\ [][NextWithPump]_vars
    /\ WF_vars(PumpOnceStep)
    /\ WF_pc(UpdateReturns)
    /\ \A t \in Callers : WF_vars(CallerStep(t))

\* ------------------------------------------------------------------------
\* FB::Hide (src/src/FBHide.cpp): ApplyHide and ResetActor.  Both run under
\* g_mutex from their first access to g_stateByActorID on and are one step.
\* ApplyHideSlot is a stub that only logs, so touchedSlots stays empty and
\* the dismember branch of ResetActor is never entered.
\* valid: the handle resolves to an actor (GetActorID != 0); root: the actor
\* has its 3D loaded (GetRoot3D != nullptr).
\* ------------------------------------------------------------------------
\* TraverseNode(root, geoms): the renderable objects below the root, in
\* traversal order
TraverseNode(actor) ==
    SelectSeq([i \in 1..Len(SceneNames) |-> <<actor, SceneNames[i]>>], IsRenderableGeometry)

GetHiddenFlag(flags, obj) == flags[obj]

SetHiddenFlag(flags, obj, a_hidden) == [flags EXCEPT ![obj] = a_hidden]

NoHideState == [baselineHiddenByObj |-> EmptyMap, touched |-> <<>>]

\* the body of the loop of ApplyHide that sets the flag to visible instead of
\* the cached baseline when un-hiding
ApplyHideTo_Unconditional(H, obj, a_hide) ==
    LET state1 == IF obj \in DOMAIN H.state.baselineHiddenByObj
                  THEN H.state
                  ELSE [baselineHiddenByObj |->
                            MapPut(H.state.baselineHiddenByObj, obj,
                                   GetHiddenFlag(H.flags, obj)),
                        touched |-> Append(H.state.touched, obj)]
    IN [state |-> state1,
        flags |-> SetHiddenFlag(H.flags, obj, a_hide)]

\* the body of the loop of ApplyHide for one object; H is [flags, state]
ApplyHideTo(H, obj, a_hide) ==
    LET state1 == IF obj \in DOMAIN H.state.baselineHiddenByObj
                  THEN H.state
                  ELSE [baselineHiddenByObj |->
                            MapPut(H.state.baselineHiddenByObj, obj,
                                   GetHiddenFlag(H.flags, obj)),
                        touched |-> Append(H.state.touched, obj)]
    IN [state |-> state1,
        flags |-> IF a_hide
                  THEN SetHiddenFlag(H.flags, obj, TRUE)
                  ELSE SetHiddenFlag(H.flags, obj, state1.baselineHiddenByObj[obj])]

\* for (auto* obj : geoms) { ... }
RECURSIVE ApplyHideLoop(_, _, _)
ApplyHideLoop(H, geoms, a_hide) ==
    IF geoms = <<>>
    THEN H
    ELSE ApplyHideLoop(ApplyHideTo(H, Head(geoms), a_hide), Tail(geoms), a_hide)

\* baselineSeen with the flags of the objects of geoms that are touched for
\* the first time
SeenAfter(geoms) ==
    LET new == {geoms[i] : i \in 1..Len(geoms)} \ DOMAIN baselineSeen
    IN [o \in DOMAIN baselineSeen \cup new |->
           IF o \in DOMAIN baselineSeen THEN baselineSeen[o] ELSE hiddenFlag[o]]

\* FB::Hide::ApplyHide(a_actor, a_hide, logOps)
ApplyHide(actor, a_hide, valid, root) ==
    IF ~valid \/ ~root
    THEN /\ lastHide' = [op |-> "ApplyHide", actor |-> actor, hide |-> a_hide,
                         ran |-> FALSE, root |-> root]
         /\ UNCHANGED <<hiddenFlag, g_stateByActorID, baselineSeen>>
    ELSE LET geoms == TraverseNode(actor)
             state == IF actor \in DOMAIN g_stateByActorID
                      THEN g_stateByActorID[actor] ELSE NoHideState
             H == ApplyHideLoop([flags |-> hiddenFlag, state |-> state], geoms, a_hide)
         IN /\ hiddenFlag' = H.flags
            /\ g_stateByActorID' = MapPut(g_stateByActorID, actor, H.state)
            /\ baselineSeen' = SeenAfter(geoms)
            /\ lastHide' = [op |-> "ApplyHide", actor |-> actor, hide |-> a_hide,
                            ran |-> TRUE, root |-> root]

\* for (auto* obj : state.touched) SetHiddenFlag(obj, baseline)
RECURSIVE RestoreBaselines(_, _, _)
RestoreBaselines(flags, state, objs) ==
    IF objs = <<>>
    THEN flags
    ELSE RestoreBaselines(
            IF Head(objs) \in DOMAIN state.baselineHiddenByObj
            THEN SetHiddenFlag(flags, Head(objs), state.baselineHiddenByObj[Head(objs)])
            ELSE flags,
            state, Tail(objs))

\* FB::Hide::ResetActor(a_actor, logOps)
ResetActor(actor, valid, root) ==
    IF ~valid \/ actor \notin DOMAIN g_stateByActorID
    THEN /\ lastHide' = [op |-> "ResetActor", actor |-> actor, hide |-> FALSE,
                         ran |-> FALSE, root |-> root]
         /\ UNCHANGED <<hiddenFlag, g_stateByActorID, baselineSeen>>
    ELSE LET state == g_stateByActorID[actor] IN
         /\ hiddenFlag' = IF root
                          THEN RestoreBaselines(hiddenFlag, state, state.touched)
                          ELSE hiddenFlag
         /\ g_stateByActorID' = MapErase(g_stateByActorID, actor)
         /\ lastHide' = [op |-> "ResetActor", actor |-> actor, hide |-> FALSE,
                         ran |-> TRUE, root |-> root]
         /\ baselineSeen' = [o \in {x \in DOMAIN baselineSeen : x[1] # actor} |->
                                baselineSeen[o]]

\* FB::Hide on a scene in which any of the objects may already be hidden
InitWithHide ==
    /\ InitMorph
    /\ InitPump
    /\ InitRouter
    /\ hiddenFlag \in [SceneObjects -> BOOLEAN]
    /\ g_stateByActorID = EmptyMap
    /\ baselineSeen = EmptyMap
    /\ lastHide = NoHideCall
    /\ cfgTimelines = PairTimelines
    /\ g_registeredActors = Actors
    /\ g_state = EmptyMap
    /\ g_activeTimelines = EmptyMap
    /\ g_activeTweens = EmptyMap
    /\ calls = <<>>
    /\ lastOp = NoOp
    /\ lastBump = [c \in Actors |-> [by |-> "none", commands |-> <<>>]]
    /\ scaleWrites = [c \in Actors |-> {}]
    /\ written = [c \in Actors |-> NothingWritten]
    /\ runLog = NoRunLog
    /\ tweenSteps = EmptyMap
    /\ observeWrites = FALSE
    /\ observeTicks = FALSE

NextWithHide ==
    \/ /\ \E actor \in Actors, a_hide \in BOOLEAN, valid \in BOOLEAN, root \in BOOLEAN :
            ApplyHide(actor, a_hide, valid, root)
       /\ UNCHANGED <<runtimeVars, morphVars, pumpVars, routerVars>>
    \/ /\ \E actor \in Actors, valid \in BOOLEAN, root \in BOOLEAN :
            ResetActor(actor, valid, root)
       /\ UNCHANGED <<runtimeVars, morphVars, pumpVars, routerVars>>

SpecWithHide == InitWithHide /\ [][NextWithHide]_vars

\* ------------------------------------------------------------------------
\* FB::CommandRouter (src/src/FBCommandRouter.cpp): ScheduleCommands starts
\* one detached thread per command.  The thread sleeps for the offset of its
\* command, compares the caster's token (getTokenFn) with the token it was
\* started with and, if they agree, adds a task that calls ExecuteCommandNow
\* on the game thread.  pc of a thread: "sleep", "check", "post", "done".
\* The token behind getTokenFn is the one of the animation event handlers
\* (src/src/AnimationEvents.cpp), which bump it when a timeline starts and
\* when it is cancelled.
\* ------------------------------------------------------------------------
RouterCommands ==
    <<[type |-> "kScale", target |-> "kCaster", timeSeconds |-> 0, key |-> "Head",
       scale |-> 5, visible |-> TRUE],
      [type |-> "kVis", target |-> "kTarget", timeSeconds |-> kMaxDtSeconds, key |-> "Body",
       scale |-> kIdentityScale, visible |-> FALSE]>>

\* std::thread([ctx, casterFormID, token, getTokenFn, cmd]() ...).detach()
RouterThread(ctx, cmd, casterFormID, token) ==
    [ctx |-> ctx, cmd |-> cmd, casterFormID |-> casterFormID, token |-> token,
     pc |-> IF cmd.timeSeconds > 0 THEN "sleep" ELSE "check"]

\* for (const auto& cmd : commands) std::thread(...).detach();
RECURSIVE ScheduleCommands(_, _, _, _, _)
ScheduleCommands(threads, ctx, commands, casterFormID, token) ==
    IF commands = <<>>
    THEN threads
    ELSE ScheduleCommands(Append(threads, RouterThread(ctx, Head(commands), casterFormID, token)),
                          ctx, Tail(commands), casterFormID, token)

\* a start event of the caster: the handler bumps the token and schedules
\* the commands with the new token
RouterStart(casterFormID, target) ==
    /\ BumpsOfRouter < MaxRouterBumps
    /\ g_actorState' = [g_actorState EXCEPT ![casterFormID] = @ + 1]
    /\ routerThreads' = ScheduleCommands(routerThreads,
                                         [caster |-> casterFormID, target |-> target],
                                         RouterCommands, casterFormID,
                                         g_actorState[casterFormID] + 1)
    /\ UNCHANGED <<g_taskQueue, executed>>

\* a cancel event of the caster: the handler bumps the token
RouterCancel(casterFormID) ==
    /\ BumpsOfRouter < MaxRouterBumps
    /\ g_actorState' = [g_actorState EXCEPT ![casterFormID] = @ + 1]
    /\ UNCHANGED <<routerThreads, g_taskQueue, executed>>

\* std::this_thread::sleep_for(cmd.timeSeconds) returns
RouterWakes(t) ==
    /\ routerThreads[t].pc = "sleep"
    /\ routerThreads' = [routerThreads EXCEPT ![t].pc = "check"]
    /\ UNCHANGED <<g_actorState, g_taskQueue, executed>>

\* if (getTokenFn && getTokenFn(casterFormID) != token) return;
RouterChecks(t) ==
    /\ routerThreads[t].pc = "check"
    /\ routerThreads' =
         [routerThreads EXCEPT ![t].pc =
             IF g_actorState[routerThreads[t].casterFormID] # routerThreads[t].token
             THEN "done" ELSE "post"]
    /\ UNCHANGED <<g_actorState, g_taskQueue, executed>>

\* ExecuteCommandNow(ctx, cmd), observed with the caster's token at the time
\* of the call
ExecuteCommandNow(log, th, by) ==
    Append(log, [cmd |-> th.cmd, ctx |-> th.ctx, casterFormID |-> th.casterFormID,
                 token |-> th.token, current |-> g_actorState[th.casterFormID], by |-> by])

\* taskIF->AddTask(...) or, without a task interface, the direct call
RouterPosts(t, taskIF) ==
    /\ routerThreads[t].pc = "post"
    /\ routerThreads' = [routerThreads EXCEPT ![t].pc = "done"]
    /\ IF taskIF
       THEN /\ g_taskQueue' = Append(g_taskQueue,
                                     [fn |-> "ExecuteCommandNow", thread |-> routerThreads[t]])
            /\ UNCHANGED executed
       ELSE /\ executed' = ExecuteCommandNow(executed, routerThreads[t], "worker")
            /\ UNCHANGED g_taskQueue
    /\ UNCHANGED g_actorState

\* the game thread runs the task at the head of its queue
RunRouterTask ==
    /\ g_taskQueue # <<>>
    /\ Head(g_taskQueue).fn = "ExecuteCommandNow"
    /\ executed' = ExecuteCommandNow(executed, Head(g_taskQueue).thread, "game")
    /\ g_taskQueue' = Tail(g_taskQueue)
    /\ UNCHANGED <<g_actorState, routerThreads>>

NextWithRouter ==
    \/ /\ \E casterFormID \in Actors :
            \E target \in Handles \ {casterFormID} : RouterStart(casterFormID, target)
       /\ UNCHANGED <<runtimeVars, g_sticky, entries, workers, delivered, pumpVars, hideVars>>
    \/ /\ \E casterFormID \in Actors : RouterCancel(casterFormID)
       /\ UNCHANGED <<runtimeVars, g_sticky, entries, workers, delivered, pumpVars, hideVars>>
    \/ /\ \E t \in 1..Len(routerThreads) : RouterWakes(t)
       /\ UNCHANGED <<runtimeVars, g_sticky, entries, workers, delivered, pumpVars, hideVars>>
    \/ /\ \E t \in 1..Len(routerThreads) : RouterChecks(t)
       /\ UNCHANGED <<runtimeVars, g_sticky, entries, workers, delivered, pumpVars, hideVars>>
    \/ /\ \E t \in 1..Len(routerThreads), taskIF \in BOOLEAN : RouterPosts(t, taskIF)
       /\ UNCHANGED <<runtimeVars, g_sticky, entries, workers, delivered, pumpVars, hideVars>>
    \/ /\ RunRouterTask
       /\ UNCHANGED <<runtimeVars, g_sticky, entries, workers, delivered, pumpVars, hideVars>>

SpecWithRouter == Init /\ [][NextWithRouter]_vars

\* ------------------------------------------------------------------------
\* Properties
\* ------------------------------------------------------------------------
Range(seq) == {seq[i] : i \in 1..Len(seq)}

Tok(gs, c) == StateRef(gs, c).token

\* the <<actor, nodeKey>> pairs of the restore-to-identity calls of a log
RestorePairs(log) ==
    {<<x.actor, x.key>> :
        x \in {y \in Range(log) : y.fn = "SetNodeScale" /\ y.value = kIdentityScale}}

TouchedOf(gs, c) ==
    LET st == StateRef(gs, c) IN
    <<st.casterTouchedScale, st.targetTouchedScale,
      st.casterTouchedMorph, st.targetTouchedMorph>>

NothingTouched == <<{}, {}, FALSE, FALSE>>

OwnsNoWork(c) ==
    /\ c \notin DOMAIN g_activeTimelines
    /\ \A k \in DOMAIN g_activeTweens : g_activeTweens[k].casterFormID # c

\* a mutator call of Update is the execution of a command of cmds, or a step
\* of a tween that a command of cmds registered
CallFromList(x, cmds) ==
    \E i \in 1..Len(cmds) :
       \/ /\ x.fn = "SetNodeScale"
          /\ cmds[i].kind = "kScale"
          /\ cmds[i].nodeKey = x.key
          /\ cmds[i].scale = x.value
       \/ /\ x.fn = "AddDelta"
          /\ cmds[i].kind = "kMorph"
          /\ cmds[i].morphName = x.key

\* C1: CancelAndReset with a valid caster handle and a valid lastTarget issues
\* a restore-to-1.0 call on the caster for exactly the node keys in the caster
\* touched set on entry and on lastTarget for exactly those in the target
\* touched set on entry.  (The code bumps the token first, which clears the
\* touched sets before they are snapshotted: this fails.)
C1_ResetRestoresTouched ==
    (/\ lastOp.name = "CancelAndReset"
     /\ lastOp.caster # NullHandle
     /\ lastOp.before.lastTarget # NullHandle)
    => RestorePairs(calls) =
          ({lastOp.caster} \X lastOp.before.casterTouchedScale)
          \cup ({lastOp.before.lastTarget} \X lastOp.before.targetTouchedScale)

\* C2: a CancelAndReset with valid caster and target handles issues a
\* restore-to-1.0 call for every scale write made for that caster since its
\* previous CancelAndReset, runs superseded by a later StartTimeline included,
\* and for nothing else.  (Fails: see C1, and StartTimeline clears the touched
\* sets of the run it supersedes.)
C2_AllWritesRestored ==
    [][(/\ lastOp'.name = "CancelAndReset"
        /\ lastOp'.caster # NullHandle
        /\ lastOp'.before.lastTarget # NullHandle)
       => RestorePairs(calls') = scaleWrites[lastOp'.casterFormID]]_vars

\* C3: no token ever decreases; every CancelAndReset and every StartTimeline
\* with a non-null caster strictly increases its caster's token; Update
\* changes no token.
C3_TokenMonotonic ==
    [][/\ \A c \in Actors : Tok(g_state', c) >= Tok(g_state, c)
       /\ (lastOp'.name = "CancelAndReset"
           => Tok(g_state', lastOp'.casterFormID) > Tok(g_state, lastOp'.casterFormID))
       /\ (lastOp'.name = "StartTimeline" /\ lastOp'.caster # NullHandle
           => Tok(g_state', lastOp'.casterFormID) > Tok(g_state, lastOp'.casterFormID))
       /\ (lastOp'.name = "Update"
           => \A c \in Actors : Tok(g_state', c) = Tok(g_state, c))]_vars

C3_Witness ==
    /\ lastOp.name = "CancelAndReset"
    /\ lastOp.before.token >= 1
    /\ \E c \in Actors \ {lastOp.casterFormID} : Tok(g_state, c) >= 1

\* No mutator call and no touched-mark of an Update step is made for an entry
\* whose captured token is not current
NoStaleEffect ==
    /\ \A x \in Range(calls') : Tok(g_state, x.owner) = x.token
    /\ \A c \in Actors :
          TouchedOf(g_state', c) # TouchedOf(g_state, c)
          => \E x \in Range(calls') : x.owner = c /\ Tok(g_state, c) = x.token

\* Every timeline and tween that is stale on entry is gone on return (a tween
\* key may be taken again by a tween registered in this tick)
StaleEntriesGone ==
    /\ \A c \in DOMAIN g_activeTimelines :
          Tok(g_state, g_activeTimelines[c].casterFormID) # g_activeTimelines[c].token
          => c \notin DOMAIN g_activeTimelines'
    /\ \A k \in DOMAIN g_activeTweens :
          Tok(g_state, g_activeTweens[k].casterFormID) # g_activeTweens[k].token
          => \/ k \notin DOMAIN g_activeTweens'
             \/ /\ g_activeTweens'[k].elapsedSeconds <= kMaxDtSeconds
                /\ Tok(g_state', g_activeTweens'[k].casterFormID) = g_activeTweens'[k].token

\* C4: no Update makes a scale write, morph delta or touched-mark for a
\* timeline or tween whose captured token is not its caster's current token;
\* the Update removes each such entry, which is therefore never retried.
C4_StaleDroppedWithoutEffect ==
    [][lastOp'.name = "Update" => (NoStaleEffect /\ StaleEntriesGone)]_vars

C4_Witness ==
    /\ lastOp.name = "Update"
    /\ \E tw \in lastOp.stale :
          <<tw.actorFormID, tw.morphName>> \notin DOMAIN g_activeTweens

\* C5: the active timeline of a caster is the list of its latest StartTimeline
\* and carries its current token (one timeline per caster identity), and
\* every mutator call an Update makes for a caster carries the caster's
\* current token and comes from the list of its latest StartTimeline.
C5_OnlyLatestRunActs ==
    /\ \A c \in DOMAIN g_activeTimelines :
          /\ g_activeTimelines[c].casterFormID = c
          /\ g_activeTimelines[c].token = Tok(g_state, c)
          /\ lastBump[c].by = "StartTimeline"
          /\ g_activeTimelines[c].commands = lastBump[c].commands
    /\ lastOp.name = "Update"
       => \A x \in Range(calls) :
             /\ x.token = Tok(g_state, x.owner)
             /\ lastBump[x.owner].by = "StartTimeline"
             /\ CallFromList(x, lastBump[x.owner].commands)

C5_Witness ==
    /\ lastOp.name = "Update"
    /\ \E c \in Actors :
          /\ Tok(g_state, c) >= 2
          /\ \E tw \in lastOp.stale : tw.casterFormID = c /\ tw.appliedSoFar > 0
          /\ \E x \in Range(calls) : x.owner = c

\* C6: right after CancelAndReset(c) both touched-scale sets of c are empty
\* and both touched-morph flags are cleared, whatever the handle and flags.
C6_TouchedEmptyAfterReset ==
    lastOp.name = "CancelAndReset"
    => /\ lastOp.casterFormID \in DOMAIN g_state
       /\ TouchedOf(g_state, lastOp.casterFormID) = NothingTouched

C6_Witness ==
    /\ lastOp.name = "CancelAndReset"
    /\ lastOp.caster = NullHandle
    /\ ~lastOp.resetMorphCaster
    /\ lastOp.before.casterTouchedScale # {}
    /\ lastOp.before.targetTouchedScale # {}

\* C7: from CancelAndReset(c) until the next StartTimeline(c), c has no active
\* timeline and owns no active tween, no Update issues a mutator call for c,
\* and nothing is marked touched for c.
C7_NoWorkAfterReset ==
    \A c \in Actors :
       lastBump[c].by = "CancelAndReset"
       => /\ OwnsNoWork(c)
          /\ TouchedOf(g_state, c) = NothingTouched
          /\ (lastOp.name = "Update" => \A x \in Range(calls) : x.owner # c)

C7_Witness ==
    /\ lastOp.name = "Update"
    /\ lastOp.ticked
    /\ calls # <<>>
    /\ \E c \in Actors : lastBump[c].by = "CancelAndReset" /\ Tok(g_state, c) >= 2

\* C8 as stated: after CancelAndReset(c) the recorded lastTarget of c is empty.
\* (Fails: neither BumpToken nor TakeSnapshot writes lastTarget.)
C8_LastTargetCleared ==
    lastOp.name = "CancelAndReset"
    => StateRef(g_state, lastOp.casterFormID).lastTarget = NullHandle

\* C8 amended: CancelAndReset(c) leaves the recorded lastTarget of c as it was
\* on entry; only the touched record is cleared.
C8_LastTargetKept ==
    lastOp.name = "CancelAndReset"
    => StateRef(g_state, lastOp.casterFormID).lastTarget = lastOp.before.lastTarget

C8_Witness ==
    /\ lastOp.name = "CancelAndReset"
    /\ lastOp.before.lastTarget # NullHandle
    /\ lastOp.before.targetTouchedScale # {}

\* C9: after StartTimeline with a non-null caster handle, the touched record
\* of c is empty, lastTarget is the supplied target, the token is bumped by
\* one, and the active timeline of c is the supplied list with cursor 0,
\* elapsed 0 and the new token.
C9_StartInstallsTimeline ==
    (lastOp.name = "StartTimeline" /\ lastOp.caster # NullHandle)
    => LET c == lastOp.casterFormID IN
       /\ c \in DOMAIN g_state
       /\ c \in DOMAIN g_activeTimelines
       /\ TouchedOf(g_state, c) = NothingTouched
       /\ g_state[c].lastTarget = lastOp.target
       /\ g_state[c].token = lastOp.before.token + 1
       /\ g_activeTimelines[c] =
             [caster |-> lastOp.caster, target |-> lastOp.target, casterFormID |-> c,
              token |-> g_state[c].token, elapsedSeconds |-> 0, nextIndex |-> 0,
              commands |-> lastOp.commands]

C9_Witness ==
    /\ lastOp.name = "StartTimeline"
    /\ lastOp.caster # NullHandle
    /\ lastOp.target # NullHandle
    /\ lastOp.before.casterTouchedScale # {}
    /\ lastOp.before.lastTarget = NullHandle

\* C10: StartTimeline with an empty caster handle changes no token, touched
\* record, lastTarget, timeline or tween of any caster and issues no call.
C10_NullCasterNoOp ==
    [][(lastOp'.name = "StartTimeline" /\ lastOp'.caster = NullHandle)
       => /\ UNCHANGED <<g_state, g_activeTimelines, g_activeTweens>>
          /\ calls' = <<>>]_vars

C10_Witness ==
    /\ lastOp.name = "StartTimeline"
    /\ lastOp.caster = NullHandle
    /\ lastOp.casterFormID \in DOMAIN g_activeTimelines
    /\ g_activeTimelines[lastOp.casterFormID].nextIndex > 0
    /\ g_activeTweens # EmptyMap

\* ------------------------------------------------------------------------
\* Properties of Update called directly (SpecApi)
\* ------------------------------------------------------------------------
\* the tick under observation: an Update that got past the dt <= 0 return
Ticked == lastOp.name = "Update" /\ lastOp.ticked

\* the dt the loops of the observed tick ran with
EffectiveDt == Min(lastOp.dtSeconds, kMaxDtSeconds)

\* C11: Update(dt) with dt <= 0 changes no timeline (elapsed, cursor), no
\* tween (elapsed, appliedSoFar), no touched set and no token, removes no
\* entry and issues no mutator call.
C11_NonPositiveDtNoOp ==
    [][(lastOp'.name = "Update" /\ ~lastOp'.ticked)
       => /\ lastOp'.dtSeconds <= 0
          /\ UNCHANGED <<g_state, g_activeTimelines, g_activeTweens>>
          /\ calls' = <<>>]_vars

C11_Witness ==
    /\ lastOp.name = "Update"
    /\ ~lastOp.ticked
    /\ lastOp.dtSeconds < 0
    /\ StaleTweens # {}
    /\ \E c \in DOMAIN g_activeTimelines :
          LET tl == g_activeTimelines[c] IN
          /\ tl.token = Tok(g_state, c)
          /\ tl.commands[tl.nextIndex + 1].timeSeconds <= tl.elapsedSeconds

\* what the step left behind, in the shape of an element of UpdateOutcomes
ObservedOutcome ==
    [st |-> g_state', tl |-> g_activeTimelines', tw |-> g_activeTweens',
     calls |-> calls', cmdCalls |-> lastOp'.cmdCalls, mid |-> lastOp'.mid]

\* no command whose offset is beyond elapsed + kMaxDtSeconds was executed
NoneBeyondCeiling ==
    \A c \in DOMAIN g_activeTimelines :
       LET tl == g_activeTimelines[c] IN
       (/\ tl.token = Tok(g_state, c)
        /\ \E i \in (tl.nextIndex + 1)..Len(tl.commands) :
              tl.commands[i].timeSeconds > tl.elapsedSeconds + kMaxDtSeconds)
       => /\ c \in DOMAIN g_activeTimelines'
          /\ tl.commands[g_activeTimelines'[c].nextIndex + 1].timeSeconds
                > tl.elapsedSeconds + kMaxDtSeconds

\* C12: in every reachable state Update(dt) with dt > 0.25 has exactly the
\* results (maps, touched record, sequence of mutator calls) of Update(0.25)
\* under the same handle resolution, and it executes no command whose
\* offset exceeds elapsed + 0.25.
C12_OversizedDtIsClamped ==
    [][(lastOp'.name = "Update" /\ lastOp'.dtSeconds > kMaxDtSeconds)
       => /\ ObservedOutcome \in UpdateOutcomes(kMaxDtSeconds, lastOp'.live)
          /\ UpdateOutcomes(lastOp'.dtSeconds, lastOp'.live)
               = UpdateOutcomes(kMaxDtSeconds, lastOp'.live)
          /\ NoneBeyondCeiling]_vars

\* an oversized tick left pending a command that the unclamped dt would have
\* made due, and stepped a tween
C12_Witness ==
    /\ lastOp.name = "Update"
    /\ lastOp.dtSeconds > kMaxDtSeconds
    /\ \E c \in DOMAIN g_activeTimelines :
          LET tl == g_activeTimelines[c] IN
          tl.commands[tl.nextIndex + 1].timeSeconds
             <= tl.elapsedSeconds - kMaxDtSeconds + lastOp.dtSeconds
    /\ lastOp.cmdCalls < Len(calls)

\* the calls of a log issued on behalf of caster c
CallsFor(log, c) == SelectSeq(log, LAMBDA x : x.owner = c)

\* the calls of the timeline loop and of the tween loop of the observed step
CommandCalls == SubSeq(calls', 1, lastOp'.cmdCalls)
TweenCalls == SubSeq(calls', lastOp'.cmdCalls + 1, Len(calls'))

\* the mutator calls that executing commands from..to of timeline tl in list
\* order issues: one per Scale or instant Morph command whose handle is
\* not empty, none for a tweened Morph command
RECURSIVE DueCalls(_, _, _)
DueCalls(tl, from, to) ==
    IF from > to
    THEN <<>>
    ELSE LET cmd == tl.commands[from]
             actor == IF cmd.target = "kCaster" THEN tl.caster ELSE tl.target
         IN (IF actor = NullHandle \/ (cmd.kind = "kMorph" /\ cmd.tweenSeconds > 0)
             THEN <<>>
             ELSE <<[fn |-> IF cmd.kind = "kScale" THEN "SetNodeScale" ELSE "AddDelta",
                     actor |-> actor,
                     key |-> IF cmd.kind = "kScale" THEN cmd.nodeKey ELSE cmd.morphName,
                     value |-> IF cmd.kind = "kScale" THEN cmd.scale ELSE cmd.delta,
                     owner |-> tl.casterFormID, token |-> tl.token]>>)
            \o DueCalls(tl, from + 1, to)

\* the cursor of tl once every command with offset <= elapsed is executed
CursorAt(tl, elapsed) ==
    tl.nextIndex + Cardinality({i \in (tl.nextIndex + 1)..Len(tl.commands) :
                                   tl.commands[i].timeSeconds <= elapsed})

\* C13: an Update with dt > 0 executes, for every active timeline with a
\* current token, exactly the commands after the cursor whose offset is <=
\* the new elapsed time, in list order, and leaves the cursor past them (the
\* timeline is removed when that is the end of the list); so no command
\* runs twice or early, and an offset-0 command runs on the first tick.
C13_DueCommandsExecuteInOrder ==
    [][(lastOp'.name = "Update" /\ lastOp'.ticked)
       => \A c \in DOMAIN g_activeTimelines :
             LET tl == g_activeTimelines[c]
                 newElapsed == tl.elapsedSeconds + Min(lastOp'.dtSeconds, kMaxDtSeconds)
                 newIndex == CursorAt(tl, newElapsed)
             IN tl.token = Tok(g_state, tl.casterFormID)
                => /\ IsSorted(tl.commands)
                   /\ CallsFor(CommandCalls, c) = DueCalls(tl, tl.nextIndex + 1, newIndex)
                   /\ IF newIndex = Len(tl.commands)
                      THEN c \notin DOMAIN g_activeTimelines'
                      ELSE /\ c \in DOMAIN g_activeTimelines'
                           /\ g_activeTimelines'[c] =
                                 [tl EXCEPT !.elapsedSeconds = newElapsed,
                                            !.nextIndex = newIndex]]_vars

\* a tick executed two commands of one timeline (an instant morph and a
\* tween registration) while another timeline waits at a later offset
C13_Witness ==
    /\ Ticked
    /\ \E x \in Range(SubSeq(calls, 1, lastOp.cmdCalls)) :
          \E k \in DOMAIN lastOp.mid.tw :
             /\ lastOp.mid.tw[k].elapsedSeconds = 0
             /\ lastOp.mid.tw[k].casterFormID = x.owner
             /\ lastOp.mid.tw[k].token = x.token
    /\ \E c \in DOMAIN g_activeTimelines :
          LET tl == g_activeTimelines[c] IN
          /\ tl.nextIndex > 0
          /\ tl.elapsedSeconds >= kMaxDtSeconds
          /\ tl.commands[tl.nextIndex + 1].timeSeconds > tl.elapsedSeconds

\* a tween as ScheduleMorphTween leaves it
IsFresh(tw) ==
    /\ tw.elapsedSeconds = 0
    /\ tw.appliedSoFar = 0
    /\ ~tw.touchedMarked

\* x is the step of the tween that the tween loop found under its key
IsTweenStep(x, c) ==
    /\ x.fn = "AddDelta"
    /\ <<x.actor, x.key>> \in DOMAIN lastOp'.mid.tw
    /\ lastOp'.mid.tw[<<x.actor, x.key>>].casterFormID = c
    /\ lastOp'.mid.tw[<<x.actor, x.key>>].token = x.token

\* C14: within one Update the calls made for a caster are first the calls of
\* all its due commands, in list (ascending time) order, and only then the
\* steps of its tweens; when the last command has run no tween has been
\* advanced yet: every tween is as it was on entry or as just registered.
C14_CommandsBeforeTweens ==
    [][(lastOp'.name = "Update" /\ lastOp'.ticked)
       => /\ \A c \in Actors :
                LET mine == CallsFor(calls', c)
                    due == IF c \in DOMAIN g_activeTimelines
                              /\ g_activeTimelines[c].token = Tok(g_state, c)
                           THEN LET tl == g_activeTimelines[c] IN
                                DueCalls(tl, tl.nextIndex + 1,
                                         CursorAt(tl, tl.elapsedSeconds
                                                      + Min(lastOp'.dtSeconds, kMaxDtSeconds)))
                           ELSE <<>>
                IN /\ Len(mine) >= Len(due)
                   /\ SubSeq(mine, 1, Len(due)) = due
                   /\ \A i \in (Len(due) + 1)..Len(mine) : IsTweenStep(mine[i], c)
          /\ \A k \in DOMAIN lastOp'.mid.tw :
                \/ IsFresh(lastOp'.mid.tw[k])
                \/ k \in DOMAIN g_activeTweens /\ lastOp'.mid.tw[k] = g_activeTweens[k]
          /\ \A k \in DOMAIN g_activeTweens' :
                /\ k \in DOMAIN lastOp'.mid.tw
                /\ g_activeTweens'[k].elapsedSeconds
                     = lastOp'.mid.tw[k].elapsedSeconds
                       + Min(lastOp'.dtSeconds, kMaxDtSeconds)]_vars

\* one tick executed a command of a caster and then stepped a tween of the
\* same caster that was registered in an earlier tick
C14_Witness ==
    /\ Ticked
    /\ \E i \in 1..lastOp.cmdCalls, j \in (lastOp.cmdCalls + 1)..Len(calls) :
          /\ calls[i].owner = calls[j].owner
          /\ lastOp.mid.tw[<<calls[j].actor, calls[j].key>>].elapsedSeconds > 0

\* the handle a command of tl acts on
HandleOf(tl, cmd) == IF cmd.target = "kCaster" THEN tl.caster ELSE tl.target

IsTweened(cmd) == cmd.kind = "kMorph" /\ cmd.tweenSeconds > 0

\* the commands of timeline tl that a tick of dt executes (indices)
Executed(tl, dt) ==
    IF tl.token = Tok(g_state, tl.casterFormID)
    THEN (tl.nextIndex + 1)..CursorAt(tl, tl.elapsedSeconds + dt)
    ELSE {}

\* the tween a tweened Morph command of tl registers
Registered(tl, cmd) ==
    [actor |-> HandleOf(tl, cmd), actorFormID |-> HandleOf(tl, cmd),
     casterFormID |-> tl.casterFormID, token |-> tl.token, who |-> cmd.target,
     morphName |-> cmd.morphName, totalDelta |-> cmd.delta, appliedSoFar |-> 0,
     durationSeconds |-> cmd.tweenSeconds, elapsedSeconds |-> 0, touchedMarked |-> FALSE]

\* the tweens registered under key by the commands a tick of dt executes
\* with the actors of live resolving
RegisteredUnder(key, dt, live) ==
    UNION {{Registered(tl, tl.commands[i]) :
              i \in {j \in Executed(tl, dt) :
                        /\ IsTweened(tl.commands[j])
                        /\ HandleOf(tl, tl.commands[j]) \in live
                        /\ <<HandleOf(tl, tl.commands[j]), tl.commands[j].morphName>> = key}} :
           tl \in {g_activeTimelines[c] : c \in DOMAIN g_activeTimelines}}

\* the touched record of caster c after the commands that a tick of dt
\* executes: what Scale and instant Morph commands with a non-empty handle
\* add to the record on entry
TouchedAfterCommands(c, dt) ==
    LET st == StateRef(g_state, c)
        tl == g_activeTimelines[c]
        done == IF c \in DOMAIN g_activeTimelines
                THEN {tl.commands[i] : i \in Executed(tl, dt)}
                ELSE {}
        acting == {cmd \in done : HandleOf(tl, cmd) # NullHandle /\ ~IsTweened(cmd)}
    IN <<st.casterTouchedScale
           \cup {cmd.nodeKey : cmd \in {x \in acting : x.kind = "kScale" /\ x.target = "kCaster"}},
         st.targetTouchedScale
           \cup {cmd.nodeKey : cmd \in {x \in acting : x.kind = "kScale" /\ x.target = "kTarget"}},
         st.casterTouchedMorph
           \/ \E x \in acting : x.kind = "kMorph" /\ x.target = "kCaster",
         st.targetTouchedMorph
           \/ \E x \in acting : x.kind = "kMorph" /\ x.target = "kTarget">>

\* C15: executing a due command whose handle is valid: a Scale or instant
\* Morph command issues exactly one mutator call and marks its (role, key)
\* touched; a tweened Morph command registers a tween under (entity,
\* morphName) with elapsed 0, appliedSoFar 0 and the token of its timeline,
\* issues no call and marks nothing (the state between the two loops of
\* Update shows the effect of the command execution alone).
C15_CommandDispatch ==
    [][(lastOp'.name = "Update" /\ lastOp'.ticked)
       => LET dt == Min(lastOp'.dtSeconds, kMaxDtSeconds)
              live == lastOp'.live
              mid == lastOp'.mid
          IN /\ \A c \in DOMAIN g_activeTimelines :
                   LET tl == g_activeTimelines[c]
                       acting == {i \in Executed(tl, dt) :
                                     /\ HandleOf(tl, tl.commands[i]) # NullHandle
                                     /\ ~IsTweened(tl.commands[i])}
                   IN /\ Len(CallsFor(CommandCalls, c)) = Cardinality(acting)
                      /\ \A i \in Executed(tl, dt) :
                            LET cmd == tl.commands[i]
                                key == <<HandleOf(tl, cmd), cmd.morphName>>
                            IN (IsTweened(cmd) /\ HandleOf(tl, cmd) \in live)
                               => /\ key \in DOMAIN mid.tw
                                  /\ mid.tw[key] \in RegisteredUnder(key, dt, live)
                                  /\ RegisteredUnder(key, dt, live) = {Registered(tl, cmd)}
                                     => mid.tw[key] = Registered(tl, cmd)
             /\ \A c \in Actors : TouchedOf(mid.st, c) = TouchedAfterCommands(c, dt)
             /\ \A k \in DOMAIN mid.tw :
                   IsFresh(mid.tw[k]) => mid.tw[k] \in RegisteredUnder(k, dt, live)]_vars

\* a tick executed a Scale command and a tweened Morph command of one
\* timeline: one call, the scale key marked, the tween registered and no
\* morph marked by the command execution; the tween loop then made the first
\* step and set the mark
C15_Witness ==
    /\ Ticked
    /\ \E x \in Range(SubSeq(calls, 1, lastOp.cmdCalls)), k \in DOMAIN lastOp.mid.tw :
          /\ x.fn = "SetNodeScale"
          /\ IsFresh(lastOp.mid.tw[k])
          /\ lastOp.mid.tw[k].casterFormID = x.owner
          /\ lastOp.mid.tw[k].who = "kTarget"
          /\ x.key \in lastOp.mid.st[x.owner].casterTouchedScale
          /\ ~lastOp.mid.st[x.owner].targetTouchedMorph
          /\ g_state[x.owner].targetTouchedMorph

Abs(x) == IF x < 0 THEN -x ELSE x

\* x is zero or has the sign of d
SignOf(x, d) == (d >= 0 /\ x >= 0) \/ (d <= 0 /\ x <= 0)

\* the sum of the steps handed to the mutator, before the observed tick, for
\* the tween that the tween loop of the tick finds under key k
StepsBefore(k) ==
    IF IsFresh(lastOp'.mid.tw[k]) \/ k \notin DOMAIN tweenSteps THEN 0 ELSE tweenSteps[k]

\* the tween under k is advanced by the observed tick: its token is current
\* and its actor resolves
Advanced(k) ==
    LET tw == lastOp'.mid.tw[k] IN
    /\ tw.token = Tok(g_state, tw.casterFormID)
    /\ tw.actor \in lastOp'.live

RunsOrFinishes(k, tw, dt) ==
    LET step == StepOf(TweenCalls, k) IN
    IF tw.elapsedSeconds + dt < tw.durationSeconds
    THEN /\ k \in DOMAIN g_activeTweens'
         /\ g_activeTweens'[k] =
               [tw EXCEPT !.elapsedSeconds = @ + dt,
                          !.appliedSoFar = @ + step,
                          !.touchedMarked = @ \/ step # 0]
    ELSE /\ k \notin DOMAIN g_activeTweens'
         /\ step = tw.totalDelta - tw.appliedSoFar

\* C17 as stated: every tween that is active on entry of a tick, with a
\* current token and a resolving actor, is kept while elapsed < duration and
\* removed, after its last step, in the tick where elapsed reaches duration.
\* (Fails: a tween command executed in the tick for the same (actor,
\* morphName) replaces the tween, whatever its progress.)
C17_TweenRunsToCompletion ==
    [][(lastOp'.name = "Update" /\ lastOp'.ticked)
       => \A k \in DOMAIN g_activeTweens :
             LET tw == g_activeTweens[k] IN
             (tw.token = Tok(g_state, tw.casterFormID) /\ tw.actor \in lastOp'.live)
             => RunsOrFinishes(k, tw, Min(lastOp'.dtSeconds, kMaxDtSeconds))]_vars

\* C17 amended: a tween with a current token and a resolving actor that no
\* tween command executed in the tick replaces is kept while elapsed <
\* duration and removed, after its last step, in the tick where elapsed
\* reaches duration; the same holds for a tween registered in the tick; and
\* a step is only ever made for a tween that is in the active set when the
\* tween loop runs, so a removed tween is never advanced again.
C17_TweenRunsUnlessReplaced ==
    [][(lastOp'.name = "Update" /\ lastOp'.ticked)
       => LET dt == Min(lastOp'.dtSeconds, kMaxDtSeconds)
              mid == lastOp'.mid
          IN /\ \A k \in DOMAIN g_activeTweens :
                   RegisteredUnder(k, dt, lastOp'.live) = {}
                   => k \in DOMAIN mid.tw /\ mid.tw[k] = g_activeTweens[k]
             /\ \A k \in DOMAIN mid.tw :
                   Advanced(k) => RunsOrFinishes(k, mid.tw[k], dt)
             /\ \A x \in Range(TweenCalls) :
                   /\ <<x.actor, x.key>> \in DOMAIN mid.tw
                   /\ Advanced(<<x.actor, x.key>>)
             /\ DOMAIN g_activeTweens' \subseteq DOMAIN mid.tw]_vars

\* a tween that survived earlier ticks was removed in the tick in which its
\* elapsed time reached its duration, its last step made in that tick
C17_Witness ==
    /\ Ticked
    /\ \E k \in DOMAIN lastOp.mid.tw :
          LET tw == lastOp.mid.tw[k] IN
          /\ tw.elapsedSeconds >= kMaxDtSeconds
          /\ tw.elapsedSeconds < tw.durationSeconds
          /\ tw.elapsedSeconds + EffectiveDt >= tw.durationSeconds
          /\ tw.actor \in lastOp.live
          /\ k \notin DOMAIN g_activeTweens
          /\ \E x \in Range(SubSeq(calls, lastOp.cmdCalls + 1, Len(calls))) :
                /\ x.actor = k[1]
                /\ x.key = k[2]
                /\ x.value = tw.totalDelta - tw.appliedSoFar

\* the tween loop of the observed tick made a non-zero step for a tween of
\* caster c acting on role who
SteppedFor(c, who) ==
    \E x \in Range(TweenCalls) :
       /\ x.owner = c
       /\ x.value # 0
       /\ <<x.actor, x.key>> \in DOMAIN lastOp'.mid.tw
       /\ lastOp'.mid.tw[<<x.actor, x.key>>].who = who

\* C18: the tween loop sets the (role) morph mark of a caster exactly when a
\* tween of that caster for that role applies a non-zero step, a tween
\* carries touchedMarked exactly when it has applied something, and the
\* tween loop marks nothing else; so a tween marks at its first non-zero
\* step, not before, and a tween that never makes one (delta 0, dropped as
\* stale or unresolvable first) marks nothing.
C18_TweenMarksOnFirstStep ==
    [][(lastOp'.name = "Update" /\ lastOp'.ticked)
       => LET mid == lastOp'.mid IN
          /\ \A c \in Actors :
                LET before == StateRef(mid.st, c)
                    after == StateRef(g_state', c)
                IN /\ after.casterTouchedScale = before.casterTouchedScale
                   /\ after.targetTouchedScale = before.targetTouchedScale
                   /\ after.casterTouchedMorph
                        = (before.casterTouchedMorph \/ SteppedFor(c, "kCaster"))
                   /\ after.targetTouchedMorph
                        = (before.targetTouchedMorph \/ SteppedFor(c, "kTarget"))
          /\ \A k \in DOMAIN mid.tw :
                mid.tw[k].touchedMarked = (mid.tw[k].appliedSoFar # 0)
          /\ \A k \in DOMAIN g_activeTweens' :
                /\ g_activeTweens'[k].touchedMarked = (g_activeTweens'[k].appliedSoFar # 0)
                /\ g_activeTweens'[k].touchedMarked
                   => LET tw == g_activeTweens'[k]
                          st == StateRef(g_state', tw.casterFormID)
                      IN IF tw.who = "kCaster"
                         THEN st.casterTouchedMorph
                         ELSE st.targetTouchedMorph]_vars

\* in one tick a tween with delta 0 ran out without a mark for its caster
\* and the tween of another caster made its first step and set the mark
C18_Witness ==
    /\ Ticked
    /\ \E k \in DOMAIN lastOp.mid.tw :
          LET tw == lastOp.mid.tw[k] IN
          /\ tw.totalDelta = 0
          /\ tw.elapsedSeconds > 0
          /\ tw.actor \in lastOp.live
          /\ k \notin DOMAIN g_activeTweens
          /\ ~g_state[tw.casterFormID].casterTouchedMorph
    /\ \E k \in DOMAIN g_activeTweens :
          LET tw == g_activeTweens[k] IN
          /\ tw.touchedMarked
          /\ tw.who = "kTarget"
          /\ ~lastOp.mid.tw[k].touchedMarked
          /\ ~lastOp.mid.st[tw.casterFormID].targetTouchedMorph
          /\ g_state[tw.casterFormID].targetTouchedMorph

\* every tween of the map tws sits under its own (actorFormID, morphName),
\* so no two active tweens are for the same entity and morph
OnePerKey(tws) ==
    \A k \in DOMAIN tws :
       /\ tws[k].actorFormID = k[1]
       /\ tws[k].actor = k[1]
       /\ tws[k].morphName = k[2]

\* C19: when a tween command for (E, M) is executed while a tween for (E, M)
\* is active, the tween under (E, M) afterwards is the one the command
\* registered (its delta, duration, owner and token, elapsed 0,
\* appliedSoFar 0) and the old one is gone; in every state each active
\* tween is the only one for its (entity, morphName).
C19_TweenReplacedPerKey ==
    [][/\ OnePerKey(g_activeTweens)
       /\ OnePerKey(g_activeTweens')
       /\ (lastOp'.name = "Update" /\ lastOp'.ticked)
          => LET dt == Min(lastOp'.dtSeconds, kMaxDtSeconds)
                 live == lastOp'.live
                 mid == lastOp'.mid
             IN /\ OnePerKey(mid.tw)
                /\ \A k \in DOMAIN g_activeTweens :
                      RegisteredUnder(k, dt, live) # {}
                      => /\ k \in DOMAIN mid.tw
                         /\ mid.tw[k] \in RegisteredUnder(k, dt, live)
                         /\ mid.tw[k] # g_activeTweens[k]
                         /\ IsFresh(mid.tw[k])
                         /\ g_activeTweens[k] \in lastOp'.replaced
                         /\ k \in DOMAIN g_activeTweens'
                            => /\ g_activeTweens'[k].token = mid.tw[k].token
                               /\ g_activeTweens'[k].casterFormID = mid.tw[k].casterFormID
                               /\ g_activeTweens'[k].totalDelta = mid.tw[k].totalDelta
                               /\ g_activeTweens'[k].elapsedSeconds = dt]_vars

\* a tween command of one caster replaced the running tween of another
\* caster whose token was current and which had applied part of its delta
C19_Witness ==
    /\ Ticked
    /\ \E old \in lastOp.replaced :
          LET k == <<old.actorFormID, old.morphName>> IN
          /\ old.token = Tok(g_state, old.casterFormID)
          /\ old.appliedSoFar # 0
          /\ old.elapsedSeconds < old.durationSeconds
          /\ lastOp.mid.tw[k].casterFormID # old.casterFormID
          /\ lastOp.mid.tw[k].totalDelta # old.totalDelta
          /\ k \in DOMAIN g_activeTweens
          /\ g_activeTweens[k].casterFormID = lastOp.mid.tw[k].casterFormID

\* the keys under which the commands that a tick of dt executes register a
\* tween
DueTweenKeys(dt, live) ==
    UNION {{<<HandleOf(tl, tl.commands[i]), tl.commands[i].morphName>> :
              i \in {j \in Executed(tl, dt) :
                        /\ IsTweened(tl.commands[j])
                        /\ HandleOf(tl, tl.commands[j]) \in live}} :
           tl \in {g_activeTimelines[c] : c \in DOMAIN g_activeTimelines}}

\* a timeline with a current token leaves the active set in exactly the tick
\* in which its cursor passes its last command
RemovedWhenDone(dt) ==
    \A c \in DOMAIN g_activeTimelines :
       LET tl == g_activeTimelines[c] IN
       tl.token = Tok(g_state, tl.casterFormID)
       => ((CursorAt(tl, tl.elapsedSeconds + dt) = Len(tl.commands))
             <=> c \notin DOMAIN g_activeTimelines')

\* C20 as stated: a timeline is removed in the Update in which its cursor
\* passes its last command, and every tween of a caster whose token is
\* unchanged and whose timeline is gone stays active and is advanced by each
\* Update until it finishes.  (Fails: such a tween is erased unfinished when
\* its actor handle no longer resolves, and when a tween command for the
\* same (actor, morphName) replaces it.)
C20_TweensRunAfterTimeline ==
    [][(lastOp'.name = "Update" /\ lastOp'.ticked)
       => LET dt == Min(lastOp'.dtSeconds, kMaxDtSeconds) IN
          /\ RemovedWhenDone(dt)
          /\ \A k \in DOMAIN g_activeTweens :
                LET tw == g_activeTweens[k] IN
                (/\ tw.token = Tok(g_state, tw.casterFormID)
                 /\ tw.casterFormID \notin DOMAIN g_activeTimelines')
                => RunsOrFinishes(k, tw, dt)]_vars

\* C20 amended: a timeline is removed in the Update in which its cursor
\* passes its last command; a tween of a caster whose token is unchanged and
\* whose timeline is gone, also one registered in the very tick that removes
\* the timeline, stays active and is advanced by each Update until it
\* finishes, provided its actor handle resolves and no tween command for the
\* same (actor, morphName) replaces it.
C20_TweensOutliveTimeline ==
    [][(lastOp'.name = "Update" /\ lastOp'.ticked)
       => LET dt == Min(lastOp'.dtSeconds, kMaxDtSeconds)
              live == lastOp'.live
              mid == lastOp'.mid
          IN /\ RemovedWhenDone(dt)
             /\ \A k \in DOMAIN g_activeTweens :
                   LET tw == g_activeTweens[k] IN
                   (/\ tw.token = Tok(g_state, tw.casterFormID)
                    /\ tw.casterFormID \notin DOMAIN g_activeTimelines'
                    /\ tw.actor \in live
                    /\ RegisteredUnder(k, dt, live) = {})
                   => RunsOrFinishes(k, tw, dt)
             /\ \A k \in DueTweenKeys(dt, live) :
                   /\ k \in DOMAIN mid.tw
                   /\ mid.tw[k] \in RegisteredUnder(k, dt, live)
                   /\ RunsOrFinishes(k, mid.tw[k], dt)]_vars

\* the tick whose last command removed a timeline advanced, without
\* finishing it, a tween that the timeline had registered in an earlier tick
C20_Witness ==
    /\ Ticked
    /\ \E x \in Range(SubSeq(calls, 1, lastOp.cmdCalls)), k \in DOMAIN g_activeTweens :
          /\ x.owner \notin DOMAIN g_activeTimelines
          /\ x.token = Tok(g_state, x.owner)
          /\ k \in DOMAIN lastOp.mid.tw
          /\ lastOp.mid.tw[k].elapsedSeconds > 0
          /\ g_activeTweens[k].casterFormID = x.owner
          /\ g_activeTweens[k].token = x.token
          /\ g_activeTweens[k].elapsedSeconds = lastOp.mid.tw[k].elapsedSeconds + EffectiveDt
          /\ g_activeTweens[k].elapsedSeconds < g_activeTweens[k].durationSeconds

\* ------------------------------------------------------------------------
\* The touched record against the writes made (C21, C22)
\* ------------------------------------------------------------------------
\* the touched record of caster c.  The code keeps the scale node keys per
\* role and, for morphs, one flag per role.
TouchedRecord(c) ==
    LET st == StateRef(g_state, c) IN
    [casterScale |-> st.casterTouchedScale, targetScale |-> st.targetTouchedScale,
     casterMorph |-> st.casterTouchedMorph, targetMorph |-> st.targetTouchedMorph]

\* the timeline that the last token bump of c installed is gone from the
\* active timelines: all its commands have been executed
RanToCompletion(c) ==
    /\ lastBump[c].by = "StartTimeline"
    /\ c \notin DOMAIN g_activeTimelines

\* C21: once the timeline a StartTimeline installed has run to completion,
\* with no StartTimeline or CancelAndReset for its caster since, the caster's
\* touched record is exactly what the mutator calls issued on its behalf
\* wrote: per role the node keys of its SetNodeScale calls, and per role the
\* morph flag exactly when an AddDelta call (instant morph or tween step) was
\* issued for that role.
C21_TouchedIsWhatWasWritten ==
    \A c \in Actors : RanToCompletion(c) => TouchedRecord(c) = written[c]

\* a completed timeline that scaled a node on each role, and one that wrote
\* nothing on the target role because its target handle was empty
C21_Witness ==
    /\ \E c \in Actors : /\ RanToCompletion(c)
                         /\ written[c].casterScale = {"Head"}
                         /\ written[c].targetScale = {"Belly"}
    /\ \E c \in Actors : /\ RanToCompletion(c)
                         /\ written[c].casterScale = {"Head"}
                         /\ written[c].targetScale = {}

\* the touched record b holds everything the touched record a holds
GrowsTo(a, b) ==
    /\ a.casterScale \subseteq b.casterScale
    /\ a.targetScale \subseteq b.targetScale
    /\ a.casterMorph => b.casterMorph
    /\ a.targetMorph => b.targetMorph

\* C22: between two token bumps of a caster its touched sets only grow: a
\* step that leaves the caster's token alone, and every Update, keeps every
\* entry of its touched record; only a step that bumps the token
\* (StartTimeline, CancelAndReset) removes entries.
C22_TouchedOnlyGrows ==
    [][\A c \in Actors :
         LET before == TouchedRecord(c)
             after == [casterScale |-> StateRef(g_state', c).casterTouchedScale,
                       targetScale |-> StateRef(g_state', c).targetTouchedScale,
                       casterMorph |-> StateRef(g_state', c).casterTouchedMorph,
                       targetMorph |-> StateRef(g_state', c).targetTouchedMorph]
         IN /\ (Tok(g_state', c) = Tok(g_state, c) \/ lastOp'.name = "Update")
               => GrowsTo(before, after)
            /\ ~GrowsTo(before, after)
               => /\ lastOp'.name \in {"StartTimeline", "CancelAndReset"}
                  /\ lastOp'.casterFormID = c
                  /\ Tok(g_state', c) = Tok(g_state, c) + 1
                  /\ after = NothingWritten]_vars

\* an Update that adds the target's node to a touched record which already
\* held the caster's node from an earlier tick
C22_Witness ==
    /\ lastOp.name = "Update"
    /\ \E c \in Actors :
         /\ TouchedRecord(c).casterScale = {"Head"}
         /\ TouchedRecord(c).targetScale = {"Belly"}
         /\ \E i \in 1..Len(calls) : calls[i].owner = c /\ calls[i].key = "Belly"
         /\ \A i \in 1..Len(calls) : calls[i].owner = c => calls[i].key # "Head"

\* ------------------------------------------------------------------------
\* CancelAndReset with invalid handles, and its morph reset (C23, C24)
\* ------------------------------------------------------------------------
\* CancelAndReset has just run for caster identity c with the token bumped,
\* the caster's timeline and tweens gone and the touched record of both
\* roles empty
ResetDone(c) ==
    /\ Tok(g_state, c) = lastOp.before.token + 1
    /\ OwnsNoWork(c)
    /\ TouchedRecord(c) = NothingWritten

\* C23: a CancelAndReset given an empty caster handle still bumps the token,
\* removes the caster's timeline and tweens and clears the touched record of
\* both roles, and every mutator call it issues is one on the (valid)
\* lastTarget; with an empty lastTarget the touched record is cleared all the
\* same and every mutator call issued is one on the (valid) caster handle.
\* (The function returns void: there is no error to report.)
C23_InvalidHandlesStillReset ==
    lastOp.name = "CancelAndReset"
    => /\ lastOp.caster = NullHandle
          => /\ ResetDone(lastOp.casterFormID)
             /\ \A i \in 1..Len(calls) :
                   /\ calls[i].actor # NullHandle
                   /\ calls[i].actor = lastOp.before.lastTarget
       /\ lastOp.before.lastTarget = NullHandle
          => /\ ResetDone(lastOp.casterFormID)
             /\ \A i \in 1..Len(calls) :
                   /\ calls[i].actor # NullHandle
                   /\ calls[i].actor = lastOp.caster

\* a CancelAndReset with an empty caster handle and an empty lastTarget, both
\* morph-reset flags set, for a caster whose run had scaled a node
C23_Witness ==
    /\ lastOp.name = "CancelAndReset"
    /\ lastOp.caster = NullHandle
    /\ lastOp.before.lastTarget = NullHandle
    /\ lastOp.resetMorphCaster
    /\ lastOp.resetMorphTarget
    /\ lastOp.before.token >= 1
    /\ lastOp.before.casterTouchedScale # {}
    /\ calls = <<>>

\* the positions of the reset-all calls issued on actor a
ResetsOn(a) ==
    {i \in 1..Len(calls) : calls[i].fn = "ResetAllForActor" /\ calls[i].actor = a}

\* C24: CancelAndReset issues exactly one FB::Morph::ResetAllForActor call on
\* the caster when resetMorphCaster is set and the caster handle is valid,
\* and none on it otherwise; exactly one on lastTarget when resetMorphTarget
\* is set and lastTarget is valid, and none otherwise; it issues no per-morph
\* AddDelta call; and the scale-restore calls it issues are those for the
\* node keys of the snapshot it took, whatever the two flags are.
C24_MorphResetFollowsFlags ==
    lastOp.name = "CancelAndReset"
    => LET c == lastOp.casterFormID
           lastTarget == lastOp.before.lastTarget
           snap == TakeSnapshot(BumpToken(MapPut(EmptyMap, c, lastOp.before), c), c).out
       IN /\ Cardinality(ResetsOn(lastOp.caster)) =
                IF lastOp.resetMorphCaster /\ lastOp.caster # NullHandle THEN 1 ELSE 0
          /\ Cardinality(ResetsOn(lastTarget)) =
                IF lastOp.resetMorphTarget /\ lastTarget # NullHandle THEN 1 ELSE 0
          /\ \A i \in 1..Len(calls) :
                /\ calls[i].fn \in {"SetNodeScale", "ResetAllForActor"}
                /\ calls[i].fn = "ResetAllForActor"
                   => i \in ResetsOn(lastOp.caster) \cup ResetsOn(lastTarget)
          /\ RestorePairs(calls) =
                (IF lastOp.caster # NullHandle
                 THEN {lastOp.caster} \X snap.casterScale ELSE {})
                \cup (IF lastTarget # NullHandle
                      THEN {lastTarget} \X snap.targetScale ELSE {})

\* a CancelAndReset with valid caster and lastTarget after a morph of the
\* target role was written, resetMorphCaster set and resetMorphTarget clear: one
\* reset-all call, on the caster
C24_Witness ==
    /\ lastOp.name = "CancelAndReset"
    /\ lastOp.caster # NullHandle
    /\ lastOp.before.lastTarget # NullHandle
    /\ lastOp.resetMorphCaster
    /\ ~lastOp.resetMorphTarget
    /\ lastOp.before.targetTouchedMorph
    /\ Len(calls) = 1
    /\ ResetsOn(lastOp.caster) = {1}

\* ------------------------------------------------------------------------
\* The end-to-end scenario (C25)
\* ------------------------------------------------------------------------
\* the time the Update calls with the given dtSeconds advance a timeline by
RECURSIVE ElapsedAfter(_)
ElapsedAfter(dts) ==
    IF dts = <<>>
    THEN 0
    ELSE ElapsedAfter(SubSeq(dts, 1, Len(dts) - 1))
         + (IF dts[Len(dts)] <= 0 THEN 0 ELSE Min(dts[Len(dts)], kMaxDtSeconds))

\* caster c started the scenario timeline with valid caster and target
\* handles (the last StartTimeline for c came before the first tick)
ScenarioStarted(c) ==
    /\ lastBump[c].by = "StartTimeline"
    /\ lastBump[c].commands = ScenarioTimeline
    /\ StateRef(g_state, c).lastTarget # NullHandle

\* the calls of the run so far issued on behalf of c
RunCalls(c) == SelectSeq(runLog.calls, LAMBDA x : x.owner = c)

\* both Scale commands of c's timeline have fired exactly once, and the
\* touched record is {Caster: {Head}, Target: {Head}}
ScalesFiredOnce(c) ==
    /\ SelectSeq(RunCalls(c), LAMBDA x : x.fn = "SetNodeScale") =
          <<SetNodeScale(c, "Head", 5, c, Tok(g_state, c)),
            SetNodeScale(StateRef(g_state, c).lastTarget, "Head", 5, c, Tok(g_state, c))>>
    /\ StateRef(g_state, c).casterTouchedScale = {"Head"}
    /\ StateRef(g_state, c).targetTouchedScale = {"Head"}

BellyTweenRegistered(c) ==
    /\ <<c, "Belly">> \in DOMAIN g_activeTweens
    /\ g_activeTweens[<<c, "Belly">>].casterFormID = c
    /\ g_activeTweens[<<c, "Belly">>].totalDelta = 20

\* C25 as stated: after StartTimeline; Update(0.1); Update(0.1); Update(2.0)
\* both Scale commands have fired exactly once, touched is {Caster: {Head},
\* Target: {Head}} and a Morph tween for (caster, Belly) is registered.
\* (Update(2.0) advances the timeline by the clamped 0.25 s only: this fails.)
C25_ScenarioRegistersTween ==
    \A c \in Actors :
       (ScenarioStarted(c) /\ runLog.dts = <<4, 4, 80>>)
       => ScalesFiredOnce(c) /\ BellyTweenRegistered(c)

\* C25 amended: after StartTimeline; Update(0.1); Update(0.1); Update(2.0)
\* both Scale commands have fired exactly once and touched is {Caster:
\* {Head}, Target: {Head}}; the elapsed time is 0.45 s, the Morph command is
\* still pending and no tween for (caster, Belly) is registered.  The tween
\* is registered by the Update call with which the sum of the clamped tick
\* lengths reaches 2.0 s, and by none before.
C25_ScenarioClampedTick ==
    \A c \in Actors :
       ScenarioStarted(c)
       => /\ runLog.dts = <<4, 4, 80>>
             => /\ ScalesFiredOnce(c)
                /\ c \in DOMAIN g_activeTimelines
                /\ g_activeTimelines[c].elapsedSeconds = 18
                /\ g_activeTimelines[c].nextIndex = 2
                /\ <<c, "Belly">> \notin DOMAIN g_activeTweens
                /\ \A i \in 1..Len(RunCalls(c)) : RunCalls(c)[i].fn # "AddDelta"
          /\ ElapsedAfter(runLog.dts) < 80
             => <<c, "Belly">> \notin DOMAIN g_activeTweens
          /\ (/\ ElapsedAfter(runLog.dts) >= 80
              /\ ElapsedAfter(SubSeq(runLog.dts, 1, Len(runLog.dts) - 1)) < 80)
             => /\ BellyTweenRegistered(c)
                /\ c \notin DOMAIN g_activeTimelines

\* the state after StartTimeline; Update(0.1); Update(0.1); Update(2.0) for a
\* caster with valid handles
C25_Witness ==
    /\ runLog.dts = <<4, 4, 80>>
    /\ lastOp.name = "Update"
    /\ lastOp.dtSeconds = 80
    /\ \E c \in Actors : ScenarioStarted(c) /\ c \in DOMAIN g_activeTimelines

\* ------------------------------------------------------------------------
\* Per-caster isolation (C28)
\* ------------------------------------------------------------------------
\* the tweens of tws owned by caster identity c
TweensOwnedBy(tws, c) ==
    [k \in {x \in DOMAIN tws : tws[x].casterFormID = c} |-> tws[k]]

\* the timeline registered for c, if any
TimelineOf(tls, c) == IF c \in DOMAIN tls THEN {tls[c]} ELSE {}

\* C28: StartTimeline(A) and CancelAndReset(A) leave the entry of every
\* other caster identity B in g_state (token, lastTarget, touched sets; also
\* whether B has an entry at all), B's active timeline and every tween owned
\* by B unchanged.
C28_OtherCastersUntouched ==
    [][lastOp'.name \in {"StartTimeline", "CancelAndReset"}
       => \A B \in Actors \ {lastOp'.casterFormID} :
             /\ (B \in DOMAIN g_state') = (B \in DOMAIN g_state)
             /\ StateRef(g_state', B) = StateRef(g_state, B)
             /\ TimelineOf(g_activeTimelines', B) = TimelineOf(g_activeTimelines, B)
             /\ TweensOwnedBy(g_activeTweens', B) = TweensOwnedBy(g_activeTweens, B)]_vars

\* a CancelAndReset for one caster while another caster has a bumped token,
\* a lastTarget, a touched entry, an active timeline and a running tween
C28_Witness ==
    /\ lastOp.name = "CancelAndReset"
    /\ \E B \in Actors \ {lastOp.casterFormID} :
          /\ Tok(g_state, B) >= 1
          /\ StateRef(g_state, B).lastTarget # NullHandle
          /\ TouchedRecord(B) # NothingWritten
          /\ B \in DOMAIN g_activeTimelines
          /\ TweensOwnedBy(g_activeTweens, B) # EmptyMap


\* ------------------------------------------------------------------------
\* C26, C27: the runtime together with FB::Morph (SpecWithMorph)
\* ------------------------------------------------------------------------
\* the worker threads started so far
ThreadsStarted == Len(workers)

\* C26: Update(dt) never starts unmanaged concurrent work: no call of Update
\* creates a thread, the mutator calls it makes for instant Morph commands
\* and tween steps (FB::Morph::AddDelta) included.
C26_UpdateStartsNoThread ==
    [][UpdateCall => ThreadsStarted' = ThreadsStarted]_vars

\* the tasks of FB::Morph in the order the game thread runs them
MorphTasksRun == delivered

\* C27: once a reset has queued the morph-clear of an actor, no morph-set of
\* that actor that stems from an AddDelta made before the reset is run by
\* the game thread after that clear.
C27_ClearWinsOverEarlierSets ==
    \A i, j \in 1..Len(MorphTasksRun) :
       (/\ i < j
        /\ MorphTasksRun[i].fn = "FBClearMorphs"
        /\ MorphTasksRun[j].fn = "FBSetMorph")
       => ~(/\ MorphTasksRun[j].actor = MorphTasksRun[i].actor
            /\ MorphTasksRun[j].entry \in MorphTasksRun[i].before)


\* ------------------------------------------------------------------------
\* C29, C30: FB::UpdatePump (SpecWithPump)
\* ------------------------------------------------------------------------
\* the PumpOnce tasks waiting in the queue of the game thread
PumpOnceQueued == Len(SelectSeq(g_taskQueue, LAMBDA x : x.fn = "PumpOnce"))

\* the PumpOnce tasks the game thread is executing
PumpOnceExecuting == IF pc[GameThread] = "idle" THEN 0 ELSE 1

\* C29: under every interleaving of Start, Stop and the PumpOnce tasks, at
\* most one PumpOnce is queued or executing at a time.
C29_AtMostOnePumpOnce ==
    PumpOnceQueued + PumpOnceExecuting <= 1

\* a call of Stop while the pump is already stopped
StopAgain == afterStop /\ \E t \in Callers : Stop(t)

\* C30: after Stop, as long as no Start is made, the pump calls Update at
\* most once more and eventually no PumpOnce task is queued; a further Stop
\* changes nothing.
C30_StopWindsDown ==
    /\ [](afterStop => updatesAfterStop <= 1)
    /\ [][StopAgain => UNCHANGED <<g_running, g_scheduled, g_lastPerf, g_taskQueue, pc,
                                   updatesAfterStop>>]_vars
    /\ (afterStop ~> (~afterStop \/ PumpOnceQueued = 0))

\* Stop was called while a PumpOnce was past its running check, which went
\* on to call Update; the queue has drained and the game thread is idle
C30_Witness ==
    /\ afterStop
    /\ updatesAfterStop = 1
    /\ lastOp.name = "Update"
    /\ PumpOnceQueued = 0
    /\ pc[GameThread] = "idle"
    /\ ~g_running


\* every call of Start has returned (Stop is a single step)
CallsCompleted == \A t \in Callers : pc[t] = "idle"

\* the game thread has just entered PumpOnce
PumpOnceStarts == pc[GameThread] = "store_scheduled"

\* C31: the pump never stalls while running: whenever g_running is set and
\* every call of Start and Stop has completed, a PumpOnce is queued or
\* executing; and if that stays so, PumpOnce runs again and again.
C31_PumpNeverStalls ==
    /\ []((g_running /\ CallsCompleted) => PumpOnceQueued + PumpOnceExecuting >= 1)
    /\ []<>(~(g_running /\ CallsCompleted) \/ PumpOnceStarts)

\* the pump runs, no call is in progress, an earlier PumpOnce called Update
\* for the last frame and the game thread enters PumpOnce once more
C31_Witness ==
    /\ g_running
    /\ CallsCompleted
    /\ PumpOnceStarts
    /\ lastOp.name = "Update"
    /\ g_lastPerf = lastPerformanceCount
    /\ lastPerformanceCount = MaxFrames


\* ------------------------------------------------------------------------
\* C32: FB::Hide (SpecWithHide)
\* ------------------------------------------------------------------------
\* the objects of the actor that FB::Hide has touched since its last reset
TouchedObjects(seen, actor) == {o \in DOMAIN seen : o[1] = actor}

\* C32: with the 3D of the actor loaded, ApplyHide(actor, false) and
\* ResetActor(actor) leave every touched object with the hidden flag it had
\* just before FB::Hide first touched it; ResetActor leaves no cached state
\* for the actor, and the next ApplyHide caches the flags as they are then.
C32_HideBaselineRoundTrip ==
    [][/\ (lastHide'.op = "ApplyHide" /\ lastHide'.ran /\ ~lastHide'.hide)
          => \A o \in TouchedObjects(baselineSeen', lastHide'.actor) :
                hiddenFlag'[o] = baselineSeen'[o]
       /\ (lastHide'.op = "ResetActor" /\ lastHide'.ran)
          => /\ lastHide'.root
                => \A o \in TouchedObjects(baselineSeen, lastHide'.actor) :
                      hiddenFlag'[o] = baselineSeen[o]
             /\ lastHide'.actor \notin DOMAIN g_stateByActorID'
       /\ (lastHide'.op = "ApplyHide" /\ lastHide'.ran
             /\ lastHide'.actor \notin DOMAIN g_stateByActorID)
          => LET geoms == TraverseNode(lastHide'.actor) IN
             \A i \in 1..Len(geoms) :
                g_stateByActorID'[lastHide'.actor].baselineHiddenByObj[geoms[i]]
                   = hiddenFlag[geoms[i]]
      ]_vars

\* an actor whose Body was hidden from the start and whose Hands were not
\* has been hidden and un-hidden again: the Body is still hidden
C32_Witness ==
    /\ lastHide.op = "ApplyHide"
    /\ lastHide.ran
    /\ ~lastHide.hide
    /\ lastHide.actor = 1
    /\ baselineSeen[<<1, "Body">>]
    /\ ~baselineSeen[<<1, "Hands">>]
    /\ hiddenFlag[<<1, "Body">>]
    /\ ~hiddenFlag[<<1, "Hands">>]


\* ------------------------------------------------------------------------
\* C33: FB::CommandRouter (SpecWithRouter)
\* ------------------------------------------------------------------------
\* C33: a command scheduled with token t is never executed on the game
\* thread after the caster's token has been bumped past t.
C33_NoExecutionAfterBump ==
    \A i \in 1..Len(executed) :
       executed[i].by = "game" => executed[i].current = executed[i].token


\* C34: a tween that a command registers during an Update is advanced by the
\* tween loop of that same Update: its first step, totalDelta * dt / duration
\* with the clamped dt (all of totalDelta when dt >= duration), is handed to
\* the mutator in that tick, and what is left of the tween afterwards is
\* duration - dt.
C34_TweenSteppedInRegisteringTick ==
    [][(lastOp'.name = "Update" /\ lastOp'.ticked)
       => LET dt == Min(lastOp'.dtSeconds, kMaxDtSeconds)
              mid == lastOp'.mid
          IN \A k \in DOMAIN mid.tw :
                RegisteredUnder(k, dt, lastOp'.live) # {}
                => LET tw == mid.tw[k]
                       step == StepOf(TweenCalls, k)
                   IN /\ tw.elapsedSeconds = 0
                      /\ step * tw.durationSeconds
                           = tw.totalDelta * Min(dt, tw.durationSeconds)
                      /\ IF dt >= tw.durationSeconds
                         THEN k \notin DOMAIN g_activeTweens'
                         ELSE /\ k \in DOMAIN g_activeTweens'
                              /\ g_activeTweens'[k].elapsedSeconds = dt
                              /\ g_activeTweens'[k].appliedSoFar = step
                              /\ g_activeTweens'[k].durationSeconds
                                   - g_activeTweens'[k].elapsedSeconds
                                   = tw.durationSeconds - dt]_vars

\* an oversized tick registered the tween of duration 0.5 s and delta -0.8
\* and applied its first step of -0.4 for the clamped dt of 0.25 s
C34_Witness ==
    /\ Ticked
    /\ lastOp.dtSeconds > kMaxDtSeconds
    /\ \E k \in DOMAIN lastOp.mid.tw \cap DOMAIN g_activeTweens :
          /\ IsFresh(lastOp.mid.tw[k])
          /\ lastOp.mid.tw[k].durationSeconds = 2 * kMaxDtSeconds
          /\ g_activeTweens[k].elapsedSeconds = kMaxDtSeconds
          /\ g_activeTweens[k].appliedSoFar * 2 = lastOp.mid.tw[k].totalDelta
          /\ g_activeTweens[k].appliedSoFar # 0
          /\ \E i \in lastOp.cmdCalls + 1..Len(calls) :
                /\ calls[i].fn = "AddDelta"
                /\ <<calls[i].actor, calls[i].key>> = k
                /\ calls[i].value = g_activeTweens[k].appliedSoFar


\* the sum of the values of the calls of log made for the morph key k
RECURSIVE SumFor(_, _)
SumFor(log, k) ==
    IF log = <<>>
    THEN 0
    ELSE (IF Head(log).fn = "AddDelta" /\ <<Head(log).actor, Head(log).key>> = k
          THEN Head(log).value ELSE 0) + SumFor(Tail(log), k)

\* C35: when a command replaces the tween under (entity, morphName) before it
\* finished, the rest of the replaced tween's delta is never handed to the
\* mutator: the tween under the key after the timeline loop is the new one,
\* in the tick of the replacement the tween loop issues for that key only the
\* first step of the new tween, so the key has received the old tween's
\* appliedSoFar plus the steps of the new tween; the old tween had applied
\* less than its total delta.
C35_ReplacedRemainderDropped ==
    [][(lastOp'.name = "Update" /\ lastOp'.ticked)
       => LET dt == Min(lastOp'.dtSeconds, kMaxDtSeconds)
              mid == lastOp'.mid
          IN \A k \in DOMAIN g_activeTweens :
                RegisteredUnder(k, dt, lastOp'.live) # {}
                => LET old == g_activeTweens[k]
                       new == mid.tw[k]
                   IN /\ new \in RegisteredUnder(k, dt, lastOp'.live)
                      /\ old \in lastOp'.replaced
                      /\ tweenSteps[k] = old.appliedSoFar
                      /\ old.appliedSoFar * old.durationSeconds
                           = old.totalDelta * old.elapsedSeconds
                      /\ (old.elapsedSeconds < old.durationSeconds /\ old.totalDelta # 0)
                         => Abs(old.appliedSoFar) < Abs(old.totalDelta)
                      /\ SumFor(TweenCalls, k) * new.durationSeconds
                           = new.totalDelta * Min(dt, new.durationSeconds)
                      /\ k \in DOMAIN g_activeTweens'
                         => /\ g_activeTweens'[k].totalDelta = new.totalDelta
                            /\ g_activeTweens'[k].appliedSoFar = SumFor(TweenCalls, k)
                            /\ tweenSteps'[k] = SumFor(TweenCalls, k)]_vars

\* a tween with delta -0.8 that had applied half of it was replaced by a
\* tween with delta 0.4, whose first step of 0.2 is the only one of the tick:
\* the key has received -0.4 + 0.2, and -0.4 of the old tween is dropped
C35_Witness ==
    /\ Ticked
    /\ \E old \in lastOp.replaced :
          LET k == <<old.actorFormID, old.morphName>> IN
          /\ old.totalDelta < 0
          /\ old.appliedSoFar * 2 = old.totalDelta
          /\ old.token = Tok(g_state, old.casterFormID)
          /\ k \in DOMAIN g_activeTweens
          /\ g_activeTweens[k].totalDelta > 0
          /\ g_activeTweens[k].appliedSoFar * 2 = g_activeTweens[k].totalDelta
          /\ tweenSteps[k] = g_activeTweens[k].appliedSoFar


\* the touched scale set and morph flag that g_state gs keeps for the role
\* who of caster c
RoleTouched(gs, c, who) ==
    IF who = "kCaster"
    THEN <<StateRef(gs, c).casterTouchedScale, StateRef(gs, c).casterTouchedMorph>>
    ELSE <<StateRef(gs, c).targetTouchedScale, StateRef(gs, c).targetTouchedMorph>>

\* C36: a due command whose resolved handle is empty is consumed without
\* effect: the cursor moves past it (it is never run again: the cursor of a
\* timeline never moves back), no mutator call is made for it, the command
\* execution marks nothing touched for its role and registers no tween, and
\* the other due commands of the timeline still issue their calls in order.
C36_EmptyHandleConsumed ==
    /\ [][(lastOp'.name = "Update" /\ lastOp'.ticked)
          => LET dt == Min(lastOp'.dtSeconds, kMaxDtSeconds)
                 mid == lastOp'.mid
             IN \A c \in DOMAIN g_activeTimelines :
                   LET tl == g_activeTimelines[c]
                       newIndex == CursorAt(tl, tl.elapsedSeconds + dt)
                   IN \A i \in Executed(tl, dt) :
                         LET cmd == tl.commands[i] IN
                         HandleOf(tl, cmd) = NullHandle
                         => /\ IF c \in DOMAIN g_activeTimelines'
                               THEN g_activeTimelines'[c].nextIndex >= i
                               ELSE newIndex = Len(tl.commands)
                            /\ \A x \in Range(calls') : x.actor # NullHandle
                            /\ CallsFor(CommandCalls, c)
                                 = DueCalls(tl, tl.nextIndex + 1, i - 1)
                                   \o DueCalls(tl, i + 1, newIndex)
                            /\ RoleTouched(mid.st, c, cmd.target)
                                 = RoleTouched(g_state, c, cmd.target)
                            /\ \A k \in DOMAIN mid.tw :
                                  /\ k[1] # NullHandle
                                  /\ IsFresh(mid.tw[k])
                                     => ~(/\ mid.tw[k].casterFormID = c
                                          /\ mid.tw[k].token = tl.token
                                          /\ mid.tw[k].who = cmd.target)]_vars
    /\ [][\A c \in DOMAIN g_activeTimelines \cap DOMAIN g_activeTimelines' :
             g_activeTimelines'[c].token = g_activeTimelines[c].token
             => g_activeTimelines'[c].nextIndex >= g_activeTimelines[c].nextIndex]_vars

\* one tick consumed the instant Morph command for a target without handle
\* and then executed the next command of the same timeline, which registered
\* the caster's tween: no call was made by the command execution, nothing is
\* marked for the target role, and the timeline is finished
C36_Witness ==
    /\ Ticked
    /\ lastOp.cmdCalls = 0
    /\ \E k \in DOMAIN lastOp.mid.tw :
          LET tw == lastOp.mid.tw[k] IN
          /\ IsFresh(tw)
          /\ tw.who = "kCaster"
          /\ tw.morphName = "N"
          /\ tw.casterFormID \notin DOMAIN g_activeTimelines
          /\ tw.token = Tok(g_state, tw.casterFormID)
          /\ RoleTouched(lastOp.mid.st, tw.casterFormID, "kTarget") = <<{}, FALSE>>


\* C37: a second CancelAndReset of a caster directly after a first issues no
\* scale call, leaves the touched data of every caster, the active timelines
\* and the active tweens as they are and changes nothing but the caster's
\* token; its only calls are the morph resets its flags ask for.
C37_SecondResetRestoresNothing ==
    [][(/\ lastOp.name = "CancelAndReset"
        /\ lastOp'.name = "CancelAndReset"
        /\ lastOp'.casterFormID = lastOp.casterFormID)
       => LET c == lastOp'.casterFormID
              st == g_state[c]
          IN /\ c \in DOMAIN g_state
             /\ \A x \in Range(calls') : x.fn # "SetNodeScale"
             /\ calls' = (IF lastOp'.caster # NullHandle /\ lastOp'.resetMorphCaster
                          THEN <<ResetAllForActor(lastOp'.caster, c, st.token + 1)>>
                          ELSE <<>>)
                         \o (IF st.lastTarget # NullHandle /\ lastOp'.resetMorphTarget
                             THEN <<ResetAllForActor(st.lastTarget, c, st.token + 1)>>
                             ELSE <<>>)
             /\ \A a \in Actors : TouchedOf(g_state', a) = TouchedOf(g_state, a)
             /\ TouchedOf(g_state', c) = NothingTouched
             /\ g_activeTimelines' = g_activeTimelines
             /\ g_activeTweens' = g_activeTweens
             /\ g_state' = [g_state EXCEPT ![c].token = @ + 1]]_vars

\* the first CancelAndReset of the caster found its Head scale touched and a
\* last target; the second one, with the caster's handle and both flags set,
\* repeated the two morph resets and nothing else
C37_Witness ==
    /\ lastOp.name = "CancelAndReset"
    /\ lastOp.first # <<>>
    /\ lastOp.first[1].casterTouchedScale = {"Head"}
    /\ lastOp.first[1].lastTarget # NullHandle
    /\ lastOp.before.token = lastOp.first[1].token + 1
    /\ Tok(g_state, lastOp.casterFormID) = lastOp.before.token + 1
    /\ Len(calls) = 2
    /\ \A i \in 1..2 : calls[i].fn = "ResetAllForActor"


\* the worker threads that are in their loop for the key <<formID, logicalKey>>
LoopingFor(k) ==
    {t \in 1..Len(workers) :
        /\ InLoop(t)
        /\ <<entries[workers[t].entry].formID, entries[workers[t].entry].logicalKey>> = k}

\* C38: at any time at most one sticky worker thread is re-applying values
\* for a given (actor, morph key).
C38_OneWorkerPerKey ==
    \A k \in Actors \X {"M"} : Cardinality(LoopingFor(k)) <= 1


\* the game thread can still take the tasks the workers add
TaskBudgetLeft == Len(g_taskQueue) + Len(delivered) < MaxTasks

\* the value of entry e has changed since a worker last copied it
Pending(e) == e <= Len(entries) /\ entries[e].pending

\* C39: every AddDelta on a valid actor is eventually applied: while the
\* value AddDelta stored in an entry has not been copied for sending, a
\* sticky worker is in its loop on that entry, and the value is eventually
\* copied by a worker and handed to the game thread.
C39_AddDeltaEventuallyApplied ==
    /\ [](\A e \in 1..Len(entries) :
             entries[e].pending
             => \E t \in 1..Len(workers) : workers[t].entry = e /\ InLoop(t))
    /\ \A e \in 1..MaxWorkers :
          Pending(e) ~> (~Pending(e) \/ ~TaskBudgetLeft)


\* C40: with Update called again and again with positive dt, once
\* StartTimeline and CancelAndReset are no longer called (they are called
\* finitely often), the active timelines and the active tweens become empty
\* and stay empty: every timeline and every tween that is ever active is
\* eventually removed.
C40_DrainLiveness == <>[]Drained

\* a tick has run the last command of the last timeline and finished the
\* last tween: both maps are empty again
C40_Witness ==
    /\ Ticked
    /\ Drained
    /\ lastOp.mid.tw # EmptyMap
    /\ lastOp.cmdCalls > 0
    /\ lastOp.cmdCalls < Len(calls)

====
